---- MODULE Spec2Model ----
(***************************************************************************)
(* The agent-facing memory service of backend/memory: the gate             *)
(* (verify_agent_key, check_rate_limit, log_audit), the agent handlers     *)
(* (ingest_interaction, create_lesson, update_lesson, search_memories),    *)
(* the admin handlers that manage agents and settings, the relational      *)
(* store (memory.db) and the vector store (Qdrant).                        *)
(*                                                                         *)
(* Handlers are coroutines on one event loop: the code between two awaits  *)
(* runs atomically, so every action below is one such stretch of a         *)
(* handler.  A relational transaction (get_memory_db_context) keeps its    *)
(* inserts to itself until commit; an exception inside the with block      *)
(* skips the commit and closing the connection rolls the inserts back.     *)
(***************************************************************************)
EXTENDS Integers, Sequences, FiniteSets, TLC

(* ------------------------------ bounds --------------------------------- *)
MaxAgents == 2
MaxSlots == 2
MaxRequests == 2
MaxAdminOps == 2
MaxChunks == 1
MaxFiles == 1
MaxTime == 60
TickStep == 30
MaxRateLimit == 2
MaxUsers == 1
MaxPipelineFiles == 2
MaxPipelineChunks == 3
MaxPipelineRequests == 1
MaxTicks == 2
MaxClock == 700000
MaxThreshold == 2
MaxChecks == 4
MaxChunkSize == 2
MaxChunkOverlap == 2
MaxTextLen == 9
MaxMarks == 3
MaxIterations == 4
MaxTasks == 2

(* -------------------------- program constants -------------------------- *)
RateWindowSeconds == 60

(* ------------------------------ domains -------------------------------- *)
AgentIds == 1..MaxAgents
Slots == 1..MaxSlots
\* secrets.token_urlsafe(32) draws: token n is the key "mem_<n>"; one more
\* token than agents, so that a key no agent was ever given can be presented
Tokens == 1..(MaxAgents + 1)
NoKey == 0
Kinds == {"ingest_interaction", "create_lesson", "update_lesson", "search"}
MutatingKinds == {"ingest_interaction", "create_lesson", "update_lesson"}
LessonStatuses == {"draft", "approved", "archived"}

\* hashlib.sha256(api_key).hexdigest(): injective, and the digest of a string
\* is never that string (64 hex characters against "mem_" + 43 characters)
Sha256(k) == k + (MaxAgents + 1)

\* the values an X-API-Key header can carry: absent, a key, or a digest
Headers == {NoKey} \cup Tokens \cup {Sha256(t) : t \in Tokens}

VARIABLES
    now,                 \* datetime.now(timezone.utc), in seconds
    memory_settings,     \* the singleton row of memory_settings
    shared_columns,      \* column layout of the memories_shared table on disk
    memory_agents,       \* agent id -> row of memory_agents
    api_keys,            \* agent id -> api_key returned by create_agent
    memories,            \* rows of memories
    memory_documents,    \* rows of memory_documents
    memories_shared,     \* rows of memories_shared
    memory_lessons,      \* lesson id -> row of memory_lessons
    memory_audit_log,    \* rows of memory_audit_log, in insertion order
    qdrant,              \* points of the vector store, all collections
    rate_limits,         \* _rate_limits: agent id -> list of datetimes
    admitted,            \* history: the ingests check_rate_limit let through
    requests,            \* slot -> the request being served or last served
    reqSeq,              \* number of agent requests received so far
    adminOps,            \* number of admin requests served so far
    config_response,     \* the last /config request and its response
    admin_response,      \* the last admin memory request and its response
    background,          \* _running, _task and the position of the loop
    miner,               \* the locals of the mine_lessons call in progress
    chunker,             \* the arguments and locals of a chunk_text call
    nextId               \* uuid.uuid4() draws so far

vars == <<now, memory_settings, shared_columns, chunker, memory_agents,
          api_keys,
          memories, memory_documents, memories_shared, memory_lessons,
          memory_audit_log, qdrant, rate_limits, admitted, requests, reqSeq,
          adminOps, config_response, admin_response, background, miner,
          nextId>>

stores == <<memories, memory_documents, memories_shared, memory_lessons,
            memory_audit_log, qdrant>>

(* ------------------------------ helpers -------------------------------- *)
\* pii and share are the two flags of the settings the handler read; files
\* holds, per uploaded file, whether parse_document returned text for it;
\* all_text the files whose block the composite text has; scrub_text what
\* pii_scrubbed_text is; faults is the history of what failed under the
\* request
IdleRequest ==
    [seq |-> 0, kind |-> "none", key |-> NoKey, pc |-> "idle", status |-> 0,
     agent |-> 0, rid |-> 0, shared_id |-> 0, pii |-> FALSE, share |-> FALSE,
     files |-> <<>>, all_text |-> <<>>, chunks |-> 0, embedded |-> FALSE,
     scrub_text |-> "none", scrubbed |-> 0,
     scrub_embedded |-> FALSE, i |-> 0, committed |-> FALSE,
     audit_failed |-> FALSE, faults |-> {}, new_status |-> "none",
     text |-> <<>>, channel |-> "none", supplied |-> <<>>, entities |-> <<>>,
     ts |-> 0, summary |-> <<>>, query |-> <<>>, types |-> "none",
     shared_only |-> FALSE, limit |-> 0, results |-> {},
     source_memory_ids |-> {}]

\* a finished request: raise HTTPException / unhandled exception / return
\* the handler's locals go out of scope; what the client sent (text, channel,
\* supplied) and what the handler computed for the response (ts, entities)
\* stay as the history of the request
Respond(req, code) ==
    [IdleRequest EXCEPT !.pc = "done", !.status = code, !.seq = req.seq,
                        !.kind = req.kind, !.key = req.key,
                        !.agent = req.agent, !.rid = req.rid,
                        !.shared_id = req.shared_id,
                        !.pii = req.pii, !.share = req.share,
                        !.committed = req.committed,
                        !.audit_failed = req.audit_failed,
                        !.faults = req.faults,
                        !.text = req.text, !.channel = req.channel,
                        !.supplied = req.supplied,
                        !.entities = req.entities, !.ts = req.ts,
                        !.query = req.query, !.types = req.types,
                        !.shared_only = req.shared_only,
                        !.results = req.results]

\* the request after one more failure
Fault(req, what) == [req EXCEPT !.faults = @ \cup {what}]

\* len(zip(chunks, embeddings)) with embeddings that are never empty
PairsDespiteFailure(n, ok) == n

\* len(zip(chunks, embeddings)): generate_embeddings_batch returns one
\* embedding per chunk, or [] when the provider fails
Pairs(n, ok) == IF ok THEN n ELSE 0

(* ------------------------------ strings -------------------------------- *)
\* A str is the sequence of its characters. EAcute stands for the one
\* character U+00E9, the only one of the model outside ASCII.
EAcute == "U+00E9"
DQ == "\""
BS == "\\"

K_entity_type == <<"e", "n", "t", "i", "t", "y", "_", "t", "y", "p", "e">>
K_entity_id == <<"e", "n", "t", "i", "t", "y", "_", "i", "d">>
K_name == <<"n", "a", "m", "e">>
K_role == <<"r", "o", "l", "e">>
K_type == <<"t", "y", "p", "e">>
V_primary == <<"p", "r", "i", "m", "a", "r", "y">>
V_org == <<"o", "r", "g">>

\* "sep".join(parts)
RECURSIVE Join(_, _)
Join(sep, parts) ==
    IF parts = <<>> THEN <<>>
    ELSE IF Len(parts) = 1 THEN parts[1]
    ELSE parts[1] \o sep \o Join(sep, Tail(parts))

\* json.dumps of a str with ensure_ascii=True
JsonString(v) ==
    <<DQ>> \o Join(<<>>, [k \in 1..Len(v) |->
                            IF v[k] = EAcute
                            THEN <<BS, "u", "0", "0", "e", "9">>
                            ELSE <<v[k]>>]) \o <<DQ>>

\* json.dumps of a dict of strs, given as the sequence of its items in
\* insertion order
JsonObject(d) ==
    <<"{">> \o Join(<<",", " ">>,
                    [k \in 1..Len(d) |->
                        JsonString(d[k][1]) \o <<":", " ">>
                        \o JsonString(d[k][2])]) \o <<"}">>

\* json.dumps of a list of such dicts
JsonDumps(list) ==
    <<"[">> \o Join(<<",", " ">>, [k \in 1..Len(list) |-> JsonObject(list[k])])
    \o <<"]">>

\* json.loads of the text of a str literal that starts at t[i]: the str and
\* the position after its closing quote
RECURSIVE ReadChars(_, _, _)
ReadChars(t, i, acc) ==
    IF t[i] = DQ THEN [val |-> acc, next |-> i + 1]
    ELSE IF t[i] = BS THEN ReadChars(t, i + 6, Append(acc, EAcute))
    ELSE ReadChars(t, i + 1, Append(acc, t[i]))

\* the items of an object from t[i] on, after its "{" or after a ", "
RECURSIVE ReadItems(_, _, _)
ReadItems(t, i, acc) ==
    IF t[i] = "}" THEN [val |-> acc, next |-> i + 1]
    ELSE LET key == ReadChars(t, i + 1, <<>>)
             value == ReadChars(t, key.next + 3, <<>>)
             items == Append(acc, <<key.val, value.val>>)
         IN IF t[value.next] = "}"
            THEN [val |-> items, next |-> value.next + 1]
            ELSE ReadItems(t, value.next + 2, items)

\* the objects of a list from t[i] on, after its "[" or after a ", "
RECURSIVE ReadObjects(_, _, _)
ReadObjects(t, i, acc) ==
    IF t[i] = "]" THEN acc
    ELSE LET object == ReadItems(t, i + 1, <<>>)
             objects == Append(acc, object.val)
         IN IF t[object.next] = "]" THEN objects
            ELSE ReadObjects(t, object.next + 2, objects)

\* json.loads of the text of a list of dicts of strs
JsonLoads(t) == ReadObjects(t, 2, <<>>)

\* d.get(key, default) and key in d
HasKey(d, key) == \E k \in 1..Len(d) : d[k][1] = key
Get(d, key, default) ==
    IF HasKey(d, key)
    THEN d[CHOOSE k \in 1..Len(d) : d[k][1] = key][2]
    ELSE default

\* text LIKE '%' || pattern || '%' for a pattern without wildcards
Like(text, pattern) ==
    \E k \in 0..(Len(text) - Len(pattern)) :
        SubSeq(text, k + 1, k + Len(pattern)) = pattern

(* ------------------------------- Init ---------------------------------- *)
\* column defaults of memory_settings, as init_memory_db inserts the row
RateLimitDefault == 60

AutoLessonThresholdDefault == 5

DefaultSettings ==
    [rate_limit_enabled |-> FALSE, rate_limit_per_minute |-> RateLimitDefault,
     pii_scrubbing_enabled |-> TRUE, auto_share_scrubbed |-> FALSE,
     lesson_approval_required |-> TRUE,
     auto_lesson_enabled |-> TRUE,
     auto_lesson_threshold |-> AutoLessonThresholdDefault,
     openclaw_sync_enabled |-> FALSE, openclaw_sync_path |-> ""]

\* config_response before the first /config request
NoConfigRequest == [authorization |-> <<>>, status |-> 0, read |-> {}]

\* admin_response before the first admin memory request; body holds the
\* returned memory of get_memory_detail, results the results of a search,
\* lesson_id the lesson of an admin lesson request; status 0 is a request
\* that has not been answered yet
NoAdminRequest ==
    [op |-> "none", status |-> 0, memory_id |-> 0, query |-> <<>>,
     embedded |-> FALSE, body |-> <<>>, results |-> {}, lesson_id |-> 0]

\* _running = False, _task = None: the module before start_background_tasks
\* pc is where the task of the loop is suspended; tick counts the
\* iterations; export_due, mine_due, exported, mined and failed tell what
\* the last iteration found enabled, what its two activities returned and
\* what raised in it; interrupted is where the last cancel met the task.
\* tasks are the Task objects asyncio.create_task has returned so far, each
\* with its cancel flag and the iterations it began; task is the one _task
\* refers to (0 for None) and last_start tells what the last call of
\* start_background_tasks did
NewTask == [cancelled |-> FALSE, ticks |-> 0]

NoTask ==
    [running |-> FALSE, pc |-> "none", tick |-> 0, wake_at |-> 0,
     export_due |-> FALSE, mine_due |-> FALSE, exported |-> "none",
     mined |-> "none", failed |-> {}, interrupted |-> "none",
     task |-> 0, tasks |-> <<>>, last_start |-> "none"]

\* no call of mine_lessons in progress
\* clusters is the fetched list of entities_json values, k the cluster the
\* loop is at, inserted the rows of the open transaction; run numbers the
\* calls, and seen, started_at and faults are the history of the call: the
\* ids of the memories when it began, its time and what failed under it
IdleMiner ==
    [pc |-> "idle", threshold |-> 0, clusters |-> <<>>, k |-> 0,
     inserted |-> <<>>, lesson_id |-> 0, lessons_created |-> 0, run |-> 0,
     seen |-> {}, started_at |-> 0, faults |-> {}, status |-> "none"]

\* no call of chunk_text in progress
\* text, chunk_size and chunk_overlap are the arguments; start and chunks
\* the locals of the loop, a chunk being the range lo..hi of the text it
\* was sliced from; result is the returned list and iterations counts the
\* passes of the loop
IdleChunker ==
    [pc |-> "idle", text |-> <<>>, chunk_size |-> 0, chunk_overlap |-> 0,
     start |-> 0, chunks |-> <<>>, result |-> <<>>, iterations |-> 0]

\* CREATE TABLE IF NOT EXISTS leaves a table that is already in the database
\* file alone: memories_shared has either the columns init_memory_db declares
\* ("declared") or, in a file that was created before, the columns the INSERT
\* of ingest_interaction names ("as_inserted")
SharedLayouts == {"declared", "as_inserted"}

Init ==
    /\ now = 0
    /\ memory_settings = DefaultSettings
    /\ shared_columns \in SharedLayouts
    /\ memory_agents = <<>>
    /\ api_keys = <<>>
    /\ memories = {}
    /\ memory_documents = {}
    /\ memories_shared = {}
    /\ memory_lessons = <<>>
    /\ memory_audit_log = <<>>
    /\ qdrant = {}
    /\ rate_limits = <<>>
    /\ admitted = <<>>
    /\ requests = [s \in Slots |-> IdleRequest]
    /\ reqSeq = 0
    /\ adminOps = 0
    /\ config_response = NoConfigRequest
    /\ admin_response = NoAdminRequest
    /\ background = NoTask
    /\ miner = IdleMiner
    /\ chunker = IdleChunker
    /\ nextId = 0

(* ------------------------------- clock --------------------------------- *)
Tick ==
    /\ now + TickStep <= MaxTime
    /\ now' = now + TickStep
    /\ UNCHANGED <<admin_response, background, miner, memory_settings, shared_columns, chunker, memory_agents, api_keys,
                   memories, memory_documents, memories_shared, memory_lessons,
                   memory_audit_log, qdrant, rate_limits, admitted, requests,
                   reqSeq, adminOps, config_response, nextId>>

(* ------------------------- admin: authentication ----------------------- *)
\* ids of the rows of users in the main database
Users == 1..MaxUsers

\* the sub claim of a token: absent (NoUser), a user, or an id of no user
NoUser == 0
Subjects == 0..(MaxUsers + 1)

\* a JWT as jwt.decode sees it: signed with SECRET_KEY or not, past its exp
\* or not, and its sub claim
JwtTokens == [signed : BOOLEAN, expired : BOOLEAN, sub : Subjects]

UserToken == [signed |-> TRUE, expired |-> FALSE, sub |-> 1]

\* values of the Authorization header, as authorization.split() sees them;
\* <<>> is a request without the header
Authorizations ==
    {<<>>, <<"Bearer">>, <<"Basic", UserToken>>, <<"bearer", UserToken>>,
     <<"Bearer", UserToken, "x">>}
    \cup {<<"Bearer", t>> : t \in JwtTokens}

\* the header of a logged-in user
UserBearer == <<"Bearer", UserToken>>

\* str.lower() on the scheme
Lower(scheme) ==
    CASE scheme \in {"Bearer", "bearer"} -> "bearer"
      [] scheme = "Basic" -> "basic"
      [] OTHER -> scheme

\* verify_jwt_token: the sub claim, or None (NoUser) on any failure
verify_jwt_token(token) ==
    IF token.signed /\ ~token.expired THEN token.sub ELSE NoUser

\* require_admin_auth that returns the sub claim without the users lookup
RequireAdminAuthNoLookup(authorization) ==
    IF authorization = <<>> THEN NoUser
    ELSE IF Len(authorization) # 2 \/ Lower(authorization[1]) # "bearer"
    THEN NoUser
    ELSE verify_jwt_token(authorization[2])

\* require_admin_auth: the id of the user it returns, NoUser when it raises
\* HTTPException(401)
RequireAdminAuth(authorization) ==
    IF authorization = <<>> THEN NoUser
    ELSE IF Len(authorization) # 2 \/ Lower(authorization[1]) # "bearer"
    THEN NoUser
    ELSE LET user_id == verify_jwt_token(authorization[2])
         IN IF user_id = NoUser THEN NoUser
            ELSE IF user_id \notin Users THEN NoUser
            ELSE user_id

\* A /config request arrives and its dependency require_admin_auth runs;
\* read is the set of tables the handler selects from
ConfigGate(authorization, read) ==
    /\ adminOps < MaxAdminOps
    /\ adminOps' = adminOps + 1
    /\ config_response' =
          IF RequireAdminAuth(authorization) = NoUser
          THEN [authorization |-> authorization, status |-> 401, read |-> {}]
          ELSE [authorization |-> authorization, status |-> 200,
                read |-> read]

(* ------------------------- admin: agents, settings --------------------- *)
\* the digest create_agent stores for the key it returns
StoredKey(api_key) == Sha256(api_key)

CreateAgent(authorization) ==
    /\ Cardinality(DOMAIN api_keys) < MaxAgents
    /\ ConfigGate(authorization, {})
    /\ IF RequireAdminAuth(authorization) = NoUser
       THEN UNCHANGED <<admin_response, background, miner, memory_agents, api_keys>>
       ELSE LET agent_id == Cardinality(DOMAIN api_keys) + 1
                api_key == agent_id
            IN /\ memory_agents' = memory_agents @@
                     (agent_id :> [api_key_hash |-> StoredKey(api_key),
                                   is_active |-> TRUE, last_used |-> -1])
               /\ api_keys' = api_keys @@ (agent_id :> api_key)
    /\ UNCHANGED <<admin_response, background, miner, now, memory_settings, shared_columns, chunker, memories,
                   memory_documents, memories_shared, memory_lessons,
                   memory_audit_log, qdrant, rate_limits, admitted, requests,
                   reqSeq, nextId>>

UpdateAgent(authorization, agent_id, is_active) ==
    /\ agent_id \in DOMAIN memory_agents
    /\ ConfigGate(authorization, {})
    /\ memory_agents' =
          IF RequireAdminAuth(authorization) = NoUser THEN memory_agents
          ELSE [memory_agents EXCEPT ![agent_id].is_active = is_active]
    /\ UNCHANGED <<admin_response, background, miner, now, memory_settings, shared_columns, chunker, api_keys, memories,
                   memory_documents, memories_shared, memory_lessons,
                   memory_audit_log, qdrant, rate_limits, admitted, requests,
                   reqSeq, nextId>>

DeleteAgent(authorization, agent_id) ==
    /\ agent_id \in DOMAIN memory_agents
    /\ ConfigGate(authorization, {})
    /\ memory_agents' =
          IF RequireAdminAuth(authorization) = NoUser THEN memory_agents
          ELSE [a \in DOMAIN memory_agents \ {agent_id} |-> memory_agents[a]]
    /\ UNCHANGED <<admin_response, background, miner, now, memory_settings, shared_columns, chunker, api_keys, memories,
                   memory_documents, memories_shared, memory_lessons,
                   memory_audit_log, qdrant, rate_limits, admitted, requests,
                   reqSeq, nextId>>

\* GET /config/agents
ListAgents(authorization) ==
    /\ ConfigGate(authorization, {"memory_agents"})
    /\ UNCHANGED <<admin_response, background, miner, now, memory_settings, shared_columns, chunker, memory_agents,
                   api_keys, memories, memory_documents, memories_shared,
                   memory_lessons, memory_audit_log, qdrant, rate_limits,
                   admitted, requests, reqSeq, nextId>>

\* GET /config/settings
GetSettings(authorization) ==
    /\ ConfigGate(authorization, {"memory_settings"})
    /\ UNCHANGED <<admin_response, background, miner, now, memory_settings, shared_columns, chunker, memory_agents,
                   api_keys, memories, memory_documents, memories_shared,
                   memory_lessons, memory_audit_log, qdrant, rate_limits,
                   admitted, requests, reqSeq, nextId>>

\* bodies of PUT /config/settings (MemorySettingsUpdate): the rate-limit
\* pair, the scrubbing pair, the approval flag, the miner pair or the
\* export pair
RateBodies ==
    [rate_limit_enabled : BOOLEAN, rate_limit_per_minute : 1..MaxRateLimit]

ShareBodies ==
    [pii_scrubbing_enabled : BOOLEAN, auto_share_scrubbed : BOOLEAN]

MinerBodies ==
    [auto_lesson_enabled : BOOLEAN, auto_lesson_threshold : 1..MaxThreshold]

SyncBodies ==
    [openclaw_sync_enabled : BOOLEAN, openclaw_sync_path : {"", "/export"}]

SettingsBodies ==
    RateBodies \cup ShareBodies \cup [lesson_approval_required : BOOLEAN]
    \cup MinerBodies \cup SyncBodies

\* UPDATE memory_settings SET <every field of the body> WHERE id = 1, then
\* return await get_settings_endpoint(user)
UpdateSettings(authorization, data) ==
    /\ ConfigGate(authorization, {"memory_settings"})
    /\ memory_settings' =
          IF RequireAdminAuth(authorization) = NoUser THEN memory_settings
          ELSE [f \in DOMAIN memory_settings |->
                   IF f \in DOMAIN data THEN data[f] ELSE memory_settings[f]]
    /\ UNCHANGED <<admin_response, background, miner, now, shared_columns, chunker, memory_agents, api_keys, memories,
                   memory_documents, memories_shared, memory_lessons,
                   memory_audit_log, qdrant, rate_limits, admitted, requests,
                   reqSeq, nextId>>

(* ------------------------------ the gate ------------------------------- *)
\* the lookup of verify_agent_key without "AND is_active = 1"
MatchingAgentsIgnoringActive(x_api_key) ==
    {a \in DOMAIN memory_agents : memory_agents[a].api_key_hash = x_api_key}

\* the lookup of verify_agent_key without the comparison of the key
MatchingAgentsAnyKey(x_api_key) ==
    {a \in DOMAIN memory_agents : memory_agents[a].is_active}

\* SELECT * FROM memory_agents WHERE api_key_hash = ? AND is_active = 1,
\* bound to the header value as received
MatchingAgents(x_api_key) ==
    {a \in DOMAIN memory_agents :
        /\ memory_agents[a].api_key_hash = x_api_key
        /\ memory_agents[a].is_active}

FreeSlots == {s \in Slots : requests[s].pc \in {"idle", "done"}}

\* the free slot whose last request is the oldest
NextSlot(s) ==
    /\ s \in FreeSlots
    /\ \A t \in FreeSlots :
          \/ requests[s].seq < requests[t].seq
          \/ requests[s].seq = requests[t].seq /\ s <= t

\* A request arrives and its dependency verify_agent_key runs.
Auth(s, kind, x_api_key) ==
    /\ NextSlot(s)
    /\ reqSeq < MaxRequests
    /\ reqSeq' = reqSeq + 1
    /\ LET req == [IdleRequest EXCEPT !.seq = reqSeq + 1, !.kind = kind,
                                      !.key = x_api_key]
       IN IF x_api_key = NoKey \/ MatchingAgents(x_api_key) = {}
          THEN /\ requests' = [requests EXCEPT ![s] = Respond(req, 401)]
               /\ UNCHANGED memory_agents
          ELSE LET agent == CHOOSE a \in MatchingAgents(x_api_key) : TRUE
               IN /\ memory_agents' =
                        [memory_agents EXCEPT ![agent].last_used = now]
                  /\ requests' = [requests EXCEPT ![s] =
                        [req EXCEPT !.pc = "handler", !.agent = agent]]
    /\ UNCHANGED <<admin_response, background, miner, config_response, now, memory_settings, shared_columns, chunker,
                   api_keys, memories, memory_documents, memories_shared,
                   memory_lessons, memory_audit_log, qdrant, rate_limits,
                   admitted, adminOps, nextId>>

\* t > window_start filter of check_rate_limit
Recent(list, window_start) == SelectSeq(list, LAMBDA t : t > window_start)

\* the list of an agent after "Clean old entries"
CleanedList(agent_id) ==
    IF agent_id \in DOMAIN rate_limits
    THEN Recent(rate_limits[agent_id], now - RateWindowSeconds)
    ELSE <<>>

\* "Check limit" of check_rate_limit off by one: lets limit + 1 through
RateAllowedOffByOne(agent_id) ==
    \/ ~memory_settings.rate_limit_enabled
    \/ Len(CleanedList(agent_id)) <= memory_settings.rate_limit_per_minute

\* check_rate_limit: TRUE when the request is let through
RateAllowed(agent_id) ==
    \/ ~memory_settings.rate_limit_enabled
    \/ Len(CleanedList(agent_id)) < memory_settings.rate_limit_per_minute

\* check_rate_limit that appends the time to every list it holds
RateLimitsAfterOneList(agent_id) ==
    IF ~memory_settings.rate_limit_enabled THEN rate_limits
    ELSE LET kept == CleanedList(agent_id)
             list == IF RateAllowed(agent_id) THEN Append(kept, now) ELSE kept
         IN [a \in DOMAIN rate_limits \cup {agent_id} |->
                IF a = agent_id THEN list
                ELSE IF RateAllowed(agent_id)
                     THEN Append(rate_limits[a], now) ELSE rate_limits[a]]

\* check_rate_limit that appends the time before "Check limit"
RateLimitsAfterCountsRejected(agent_id) ==
    IF ~memory_settings.rate_limit_enabled THEN rate_limits
    ELSE [a \in DOMAIN rate_limits \cup {agent_id} |->
            IF a = agent_id THEN Append(CleanedList(agent_id), now)
            ELSE rate_limits[a]]

\* _rate_limits after check_rate_limit(agent_id)
RateLimitsAfter(agent_id) ==
    IF ~memory_settings.rate_limit_enabled THEN rate_limits
    ELSE LET kept == CleanedList(agent_id)
             list == IF RateAllowed(agent_id) THEN Append(kept, now) ELSE kept
         IN [a \in DOMAIN rate_limits \cup {agent_id} |->
                IF a = agent_id THEN list ELSE rate_limits[a]]

\* check_rate_limit(agent_id), called on its own: the window of the agent
\* is cleaned and, when the call returns True, the time is appended
CheckRateLimit(agent_id) ==
    /\ Len(admitted) < MaxChecks
    /\ rate_limits' = RateLimitsAfter(agent_id)
    /\ admitted' =
          IF RateAllowed(agent_id)
          THEN Append(admitted,
                  [agent |-> agent_id, at |-> now,
                   enabled |-> memory_settings.rate_limit_enabled,
                   limit |-> memory_settings.rate_limit_per_minute])
          ELSE admitted
    /\ UNCHANGED <<admin_response, background, miner, config_response, now,
                   memory_settings, shared_columns, chunker, memory_agents, api_keys,
                   memories, memory_documents, memories_shared,
                   memory_lessons, memory_audit_log, qdrant, requests,
                   reqSeq, adminOps, nextId>>

(* ------------------------- ingest_interaction -------------------------- *)
\* rows of the transaction with the summary in the place of the text
MemoryRowStoresSummary(req) ==
    [id |-> req.rid, timestamp |-> req.ts, channel |-> req.channel,
     raw_text |-> req.summary, summary_text |-> req.summary,
     has_documents |-> Len(req.files) > 0,
     entities_json |-> JsonDumps(req.entities), created_at |-> req.ts,
     req |-> req.seq]

\* rows the transaction of ingest_interaction inserts
MemoryRow(req) ==
    [id |-> req.rid, timestamp |-> req.ts, channel |-> req.channel,
     raw_text |-> req.text, summary_text |-> req.summary,
     has_documents |-> Len(req.files) > 0,
     entities_json |-> JsonDumps(req.entities), created_at |-> req.ts,
     req |-> req.seq]

\* parsed_text of the row of file k is empty when files[k] is FALSE
DocumentRows(req) ==
    {[memory_id |-> req.rid, idx |-> k, parsed_text |-> req.files[k],
      req |-> req.seq] : k \in 1..Len(req.files)}

\* the row of memories_shared with the ids in each other's place
SharedRowIdsSwapped(req) ==
    [id |-> req.rid, original_memory_id |-> req.shared_id,
     scrubbed_text |-> req.scrub_text, req |-> req.seq]

SharedRow(req) ==
    [id |-> req.shared_id, original_memory_id |-> req.rid,
     scrubbed_text |-> req.scrub_text, req |-> req.seq]

\* the condition of line 92 without its first operand
WantsSharedIgnoringPii(req) == req.share

\* settings.get("pii_scrubbing_enabled") and settings.get("auto_share_scrubbed")
WantsShared(req) == req.pii /\ req.share

\* cursor.execute("INSERT INTO memories_shared (id, original_memory_id,
\* timestamp, channel, scrubbed_text, ...)"): sqlite3.OperationalError when the
\* table has no such columns
SharedInsertRaises == shared_columns # "as_inserted"

\* a point as upsert_vector writes it: collection, id "<ref>_<chunk_index>"
\* and the payload fields
Point(collection, ref, original, i, is_shared, seq) ==
    [collection |-> collection, ref |-> ref, original |-> original,
     chunk_index |-> i, is_shared |-> is_shared, req |-> seq]

\* where the handler continues after the with block
AfterCommit(req) ==
    [req EXCEPT !.committed = TRUE, !.i = 0,
                !.pc = IF Pairs(req.chunks, req.embedded) > 0
                       THEN "upsert" ELSE "audit"]

\* the end of the with block when a failed commit is swallowed
CommitIngestSwallowsFailure(s, req, commit_ok) ==
    IF commit_ok
    THEN /\ memories' = memories \cup {MemoryRow(req)}
         /\ memory_documents' = memory_documents \cup DocumentRows(req)
         /\ memories_shared' = IF WantsShared(req)
                               THEN memories_shared \cup {SharedRow(req)}
                               ELSE memories_shared
         /\ requests' = [requests EXCEPT ![s] = AfterCommit(req)]
    ELSE /\ requests' = [requests EXCEPT ![s] =
               [AfterCommit(Fault(req, "commit")) EXCEPT !.committed = FALSE]]
         /\ UNCHANGED <<admin_response, background, miner, memories, memory_documents, memories_shared>>

\* conn.commit() at the end of the with block of ingest_interaction
CommitIngest(s, req, commit_ok) ==
    IF commit_ok
    THEN /\ memories' = memories \cup {MemoryRow(req)}
         /\ memory_documents' = memory_documents \cup DocumentRows(req)
         /\ memories_shared' = IF WantsShared(req)
                               THEN memories_shared \cup {SharedRow(req)}
                               ELSE memories_shared
         /\ requests' = [requests EXCEPT ![s] = AfterCommit(req)]
    ELSE /\ requests' = [requests EXCEPT ![s] =
               Respond(Fault(req, "commit"), 500)]
         /\ UNCHANGED <<admin_response, background, miner, memories, memory_documents, memories_shared>>

\* the form fields of POST /interactions: text, channel and entities, the
\* last one a JSON text
Texts == {<<"a">>, <<"a", "b">>}
Channels == {"call", "email"}

\* an entity reference as a client sends it, and one that carries a name too
Reference(id) ==
    <<<<K_entity_type, V_org>>, <<K_entity_id, id>>, <<K_role, V_primary>>>>
NamedReference(id, name) ==
    <<<<K_entity_type, V_org>>, <<K_entity_id, id>>, <<K_name, name>>,
      <<K_role, V_primary>>>>

\* the form of a client that sends no entities: Form("[]")
PlainForm ==
    [text |-> <<"a">>, channel |-> "call", entities |-> JsonDumps(<<>>)]

\* lines 47-50: now, and the form fields as the handler holds them;
\* entities_list = json.loads(entities) if entities else []
Received(req, form) ==
    [req EXCEPT !.ts = now, !.text = form.text, !.channel = form.channel,
                !.supplied = form.entities,
                !.entities = IF form.entities = <<>> THEN <<>>
                             ELSE JsonLoads(form.entities)]

\* ingest_interaction with the rate check after the Memory row is written
IngestGateRejectsLate(s, well_formed, form) ==
    LET req == requests[s] IN
    /\ req.pc = "handler" /\ req.kind = "ingest_interaction"
    /\ rate_limits' = RateLimitsAfter(req.agent)
    /\ nextId' = nextId + 1
    /\ IF ~RateAllowed(req.agent)
       THEN /\ memories' = memories \cup
                  {MemoryRow([req EXCEPT !.rid = nextId + 1])}
            /\ requests' = [requests EXCEPT ![s] =
                  Respond([req EXCEPT !.rid = nextId + 1], 429)]
            /\ UNCHANGED admitted
       ELSE /\ admitted' = Append(admitted,
                [agent |-> req.agent, at |-> now,
                 enabled |-> memory_settings.rate_limit_enabled,
                 limit |-> memory_settings.rate_limit_per_minute])
            /\ requests' = [requests EXCEPT ![s] =
                  IF well_formed
                  THEN [Received(req, form)
                          EXCEPT !.pc = "enrich", !.rid = nextId + 1,
                            !.pii = memory_settings.pii_scrubbing_enabled,
                            !.share = memory_settings.auto_share_scrubbed]
                  ELSE Respond(Fault([req EXCEPT !.rid = nextId + 1],
                                     "json"), 500)]
            /\ UNCHANGED memories
    /\ UNCHANGED <<admin_response, background, miner, config_response, now, memory_settings, shared_columns, chunker, memory_agents,
                   api_keys, memory_documents, memories_shared,
                   memory_lessons, memory_audit_log, qdrant, reqSeq, adminOps>>

\* lines 44-52: check_rate_limit, uuid4, json.loads, get_memory_settings
\* the request as memory_routes.ingest_interaction leaves it before its
\* first await: no rate limit is consulted, and entities or metadata that
\* are no JSON are replaced by [] and {} (the bare except clauses), so the
\* request goes on as one without entities
RoutesReceived(req, well_formed, form) ==
    IF well_formed
    THEN [Received(req, form)
            EXCEPT !.pc = "enrich", !.rid = nextId + 1,
                   !.pii = memory_settings.pii_scrubbing_enabled,
                   !.share = memory_settings.auto_share_scrubbed]
    ELSE [Fault(Received(req, form), "json")
            EXCEPT !.pc = "enrich", !.rid = nextId + 1, !.entities = <<>>,
                   !.pii = memory_settings.pii_scrubbing_enabled,
                   !.share = memory_settings.auto_share_scrubbed]

\* memory_routes.ingest_interaction, the handler server.py mounts, up to
\* its first await; from there on its text is that of memory/agent.py
RoutesIngestGate(s, well_formed, form) ==
    LET req == requests[s] IN
    /\ req.pc = "handler" /\ req.kind = "ingest_interaction"
    /\ nextId' = nextId + 1
    /\ requests' = [requests EXCEPT ![s] =
                        RoutesReceived(req, well_formed, form)]
    /\ UNCHANGED <<admin_response, background, miner, config_response, now,
                   memory_settings, shared_columns, chunker, memory_agents,
                   api_keys, memories, memory_documents, memories_shared,
                   memory_lessons, memory_audit_log, qdrant, rate_limits,
                   admitted, reqSeq, adminOps>>

\* the request as memory/agent.py ingest_interaction leaves it before its
\* first await: 429 from the rate limit, 500 from json.loads, else received
Gated(req, well_formed, form) ==
    IF ~RateAllowed(req.agent) THEN Respond(req, 429)
    ELSE IF well_formed
    THEN [Received(req, form)
            EXCEPT !.pc = "enrich", !.rid = nextId + 1,
                   !.pii = memory_settings.pii_scrubbing_enabled,
                   !.share = memory_settings.auto_share_scrubbed]
    ELSE Respond(Fault([req EXCEPT !.rid = nextId + 1], "json"), 500)

IngestGate(s, well_formed, form) ==
    LET req == requests[s] IN
    /\ req.pc = "handler" /\ req.kind = "ingest_interaction"
    /\ rate_limits' = RateLimitsAfter(req.agent)
    /\ requests' = [requests EXCEPT ![s] = Gated(req, well_formed, form)]
    /\ IF ~RateAllowed(req.agent)
       THEN /\ UNCHANGED <<admin_response, background, miner, admitted, adminOps, nextId>>
       ELSE /\ admitted' = Append(admitted,
                [agent |-> req.agent, at |-> now,
                 enabled |-> memory_settings.rate_limit_enabled,
                 limit |-> memory_settings.rate_limit_per_minute])
            /\ nextId' = nextId + 1
    /\ UNCHANGED <<admin_response, background, miner, config_response, now, memory_settings, shared_columns, chunker, memory_agents,
                   api_keys, memories, memory_documents, memories_shared,
                   memory_lessons, memory_audit_log, qdrant, reqSeq, adminOps>>

\* the parse results of up to n uploaded files: TRUE where parse_document
\* returned text, FALSE where it returned "" (failure, unsupported type)
FileParses(n) == UNION {[1..k -> BOOLEAN] : k \in 0..n}

\* the loop over the files when it ends at the first file without text
AllTextStopsAtFailure(files) ==
    LET after[k \in 0..Len(files)] ==
            IF k = 0 THEN <<>>
            ELSE IF files[k] /\ Len(after[k - 1]) = k - 1
                 THEN Append(after[k - 1], k) ELSE after[k - 1]
    IN after[Len(files)]

\* lines 55-65: all_text after the loop over the files, as the list of the
\* files whose "[Document: ...]" block was appended to the text
AllText(files) ==
    LET after[k \in 0..Len(files)] ==
            IF k = 0 THEN <<>>
            ELSE IF files[k] THEN Append(after[k - 1], k) ELSE after[k - 1]
    IN after[Len(files)]

\* scrub_pii: the redacted text, or the text as it came when the service is
\* not configured or fails
ScrubPii(scrub_ok) == IF scrub_ok THEN "redacted" ELSE "raw"

\* what the LLM gives the two enrichment calls: the summary (call_llm
\* returns "" when it fails) and the list extract_entities parses from the
\* answer ([] when the answer is not a JSON list), with the keys the
\* entity_extraction prompt asks for
Summaries == {<<>>, <<"s">>}
Extracted(name) == <<<<K_type, V_org>>, <<K_name, name>>, <<K_role, V_primary>>>>
NoLlm == [summary |-> <<>>, extracted |-> <<>>]
LlmAnswers ==
    [summary : Summaries, extracted : {<<>>, <<Extracted(<<"a">>)>>}]

\* lines 54-79: parse the files, summarize, extract, chunk, embed, scrub;
\* line 68 extracts when entities_list is empty
IngestEnrich(s, files, llm, chunks, embedded, scrub_ok, scrubbed, scrub_embedded) ==
    LET req == requests[s]
        failed ==
            (IF chunks > 0 /\ ~embedded THEN {"embedding"} ELSE {})
            \cup (IF scrubbed > 0 /\ ~scrub_embedded
                  THEN {"scrub_embedding"} ELSE {})
            \cup (IF req.pii /\ ~scrub_ok THEN {"redaction"} ELSE {})
    IN
    /\ req.pc = "enrich"
    /\ embedded => chunks > 0
    /\ scrubbed > 0 => req.pii
    /\ scrub_embedded => scrubbed > 0
    /\ requests' = [requests EXCEPT ![s] =
          [req EXCEPT !.pc = "txn", !.files = files,
                      !.all_text = AllText(files),
                      !.summary = llm.summary,
                      !.entities = IF req.entities = <<>> THEN llm.extracted
                                   ELSE req.entities,
                      !.chunks = chunks,
                      !.embedded = embedded,
                      !.scrub_text = IF req.pii THEN ScrubPii(scrub_ok)
                                     ELSE "none",
                      !.scrubbed = scrubbed,
                      !.scrub_embedded = scrub_embedded,
                      !.faults = @ \cup failed]]
    /\ UNCHANGED <<admin_response, background, miner, config_response, now, memory_settings, shared_columns, chunker, memory_agents,
                   api_keys, memories, memory_documents, memories_shared,
                   memory_lessons, memory_audit_log, qdrant, rate_limits,
                   admitted, reqSeq, adminOps, nextId>>

\* lines 81-97: the inserts of the with block, up to its first await or,
\* when it awaits nothing, through its commit
IngestTxn(s, insert_ok, commit_ok) ==
    LET req == requests[s] IN
    /\ req.pc = "txn" /\ req.kind = "ingest_interaction"
    /\ IF ~insert_ok \/ (WantsShared(req) /\ SharedInsertRaises)
       THEN /\ requests' = [requests EXCEPT ![s] =
                  Respond(Fault(req, IF insert_ok THEN "schema" ELSE "insert"),
                          500)]
            /\ UNCHANGED <<admin_response, background, miner, memories, memory_documents, memories_shared, adminOps, nextId>>
       ELSE IF WantsShared(req)
       THEN LET sreq == [req EXCEPT !.shared_id = nextId + 1] IN
            /\ nextId' = nextId + 1
            /\ IF Pairs(req.scrubbed, req.scrub_embedded) > 0
               THEN /\ requests' = [requests EXCEPT ![s] =
                          [sreq EXCEPT !.pc = "shared_upsert", !.i = 0]]
                    /\ UNCHANGED <<admin_response, background, miner, memories, memory_documents, memories_shared>>
               ELSE CommitIngest(s, sreq, commit_ok)
       ELSE /\ CommitIngest(s, req, commit_ok)
            /\ UNCHANGED nextId
    /\ UNCHANGED <<admin_response, background, miner, config_response, now, memory_settings, shared_columns, chunker, memory_agents,
                   api_keys, memory_lessons, memory_audit_log, qdrant,
                   rate_limits, admitted, reqSeq, adminOps>>

\* lines 98-103: one await upsert_vector("memory_shared", ...) inside the
\* with block; upsert_vector returns False instead of raising
IngestSharedUpsert(s, upsert_ok) ==
    LET req == requests[s] IN
    /\ req.pc = "shared_upsert"
    /\ qdrant' = IF upsert_ok
                 THEN qdrant \cup {Point("memory_shared", req.shared_id,
                                         req.rid, req.i, TRUE, req.seq)}
                 ELSE qdrant
    /\ requests' = [requests EXCEPT ![s] =
          [req EXCEPT !.i = req.i + 1,
                      !.faults = IF upsert_ok THEN @
                                 ELSE @ \cup {"shared_upsert"},
                      !.pc = IF req.i + 1 < Pairs(req.scrubbed, req.scrub_embedded)
                             THEN "shared_upsert" ELSE "commit"]]
    /\ UNCHANGED <<admin_response, background, miner, config_response, now, memory_settings, shared_columns, chunker, memory_agents,
                   api_keys, memories, memory_documents, memories_shared,
                   memory_lessons, memory_audit_log, rate_limits, admitted,
                   reqSeq, adminOps, nextId>>

\* the end of the with block after its last await
IngestCommit(s, commit_ok) ==
    LET req == requests[s] IN
    /\ req.pc = "commit"
    /\ CommitIngest(s, req, commit_ok)
    /\ UNCHANGED <<admin_response, background, miner, config_response, now, memory_settings, shared_columns, chunker, memory_agents,
                   api_keys, memory_lessons, memory_audit_log, qdrant,
                   rate_limits, admitted, reqSeq, adminOps, nextId>>

\* the private upsert loop with enumerate(..., start=1)
IngestUpsertFromOne(s, upsert_ok) ==
    LET req == requests[s] IN
    /\ req.pc = "upsert" /\ req.kind = "ingest_interaction"
    /\ qdrant' = IF upsert_ok
                 THEN qdrant \cup {Point("memory_interactions", req.rid, 0,
                                         req.i + 1, FALSE, req.seq)}
                 ELSE qdrant
    /\ requests' = [requests EXCEPT ![s] =
          [req EXCEPT !.i = req.i + 1,
                      !.faults = IF upsert_ok THEN @ ELSE @ \cup {"upsert"},
                      !.pc = IF req.i + 1 < Pairs(req.chunks, req.embedded)
                             THEN "upsert" ELSE "audit"]]
    /\ UNCHANGED <<admin_response, background, miner, config_response, now, memory_settings, shared_columns, chunker,
                   memory_agents, api_keys, memories, memory_documents,
                   memories_shared, memory_lessons, memory_audit_log,
                   rate_limits, admitted, reqSeq, adminOps, nextId>>

\* the private upsert loop when upsert_vector raises instead of returning
\* False
IngestUpsertRaises(s, upsert_ok) ==
    LET req == requests[s] IN
    /\ req.pc = "upsert" /\ req.kind = "ingest_interaction"
    /\ qdrant' = IF upsert_ok
                 THEN qdrant \cup {Point("memory_interactions", req.rid, 0,
                                         req.i, FALSE, req.seq)}
                 ELSE qdrant
    /\ requests' = [requests EXCEPT ![s] =
          IF upsert_ok
          THEN [req EXCEPT !.i = req.i + 1,
                           !.pc = IF req.i + 1 < Pairs(req.chunks, req.embedded)
                                  THEN "upsert" ELSE "audit"]
          ELSE Respond(Fault(req, "upsert"), 500)]
    /\ UNCHANGED <<admin_response, background, miner, config_response, now, memory_settings, shared_columns, chunker,
                   memory_agents, api_keys, memories, memory_documents,
                   memories_shared, memory_lessons, memory_audit_log,
                   rate_limits, admitted, reqSeq, adminOps, nextId>>

\* lines 105-110: one await upsert_vector("memory_interactions", ...)
IngestUpsert(s, upsert_ok) ==
    LET req == requests[s] IN
    /\ req.pc = "upsert" /\ req.kind = "ingest_interaction"
    /\ qdrant' = IF upsert_ok
                 THEN qdrant \cup {Point("memory_interactions", req.rid, 0,
                                         req.i, FALSE, req.seq)}
                 ELSE qdrant
    /\ requests' = [requests EXCEPT ![s] =
          [req EXCEPT !.i = req.i + 1,
                      !.faults = IF upsert_ok THEN @ ELSE @ \cup {"upsert"},
                      !.pc = IF req.i + 1 < Pairs(req.chunks, req.embedded)
                             THEN "upsert" ELSE "audit"]]
    /\ UNCHANGED <<admin_response, background, miner, config_response, now, memory_settings, shared_columns, chunker, memory_agents,
                   api_keys, memories, memory_documents, memories_shared,
                   memory_lessons, memory_audit_log, rate_limits, admitted,
                   reqSeq, adminOps, nextId>>

(* ------------------------------ lessons -------------------------------- *)
\* the source_memory_ids a LessonCreate can carry (List[str], [] unless
\* sent): none, the id of a memory, or 0 for an id of no memory
SourceInputs == {{}, {0}} \cup {{m.id} : m \in memories}

\* lines 228-232 of create_lesson: uuid4, get_memory_settings, the status
CreateLessonStart(s, source_memory_ids) ==
    LET req == requests[s] IN
    /\ req.pc = "handler" /\ req.kind = "create_lesson"
    /\ nextId' = nextId + 1
    /\ requests' = [requests EXCEPT ![s] =
          [req EXCEPT !.pc = "txn", !.rid = nextId + 1,
                      !.source_memory_ids = source_memory_ids,
                      !.new_status =
                          IF memory_settings.lesson_approval_required
                          THEN "draft" ELSE "approved"]]
    /\ UNCHANGED <<admin_response, background, miner, config_response, now, memory_settings, shared_columns, chunker, memory_agents,
                   api_keys, memories, memory_documents, memories_shared,
                   memory_lessons, memory_audit_log, qdrant, rate_limits,
                   admitted, reqSeq, adminOps>>

\* lines 233-239: INSERT INTO memory_lessons and the commit
CreateLessonTxn(s, commit_ok) ==
    LET req == requests[s] IN
    /\ req.pc = "txn" /\ req.kind = "create_lesson"
    /\ IF commit_ok
       THEN /\ memory_lessons' = memory_lessons @@
                  (req.rid :> [status |-> req.new_status, updated_at |-> now,
                               created_at |-> now,
                               related_entities_json |-> JsonDumps(<<>>),
                               source_memory_ids |-> req.source_memory_ids,
                               req |-> req.seq, run |-> 0, seen |-> {}])
            /\ requests' = [requests EXCEPT ![s] =
                  [req EXCEPT !.pc = "upsert", !.committed = TRUE]]
       ELSE /\ requests' = [requests EXCEPT ![s] = Respond(req, 500)]
            /\ UNCHANGED memory_lessons
    /\ UNCHANGED <<admin_response, background, miner, config_response, now, memory_settings, shared_columns, chunker, memory_agents,
                   api_keys, memories, memory_documents, memories_shared,
                   memory_audit_log, qdrant, rate_limits, admitted, reqSeq,
                   adminOps, nextId>>

\* lines 240-244: generate_embedding, then upsert_vector("memory_lessons")
CreateLessonUpsert(s, embedded, upsert_ok) ==
    LET req == requests[s] IN
    /\ req.pc = "upsert" /\ req.kind = "create_lesson"
    /\ qdrant' = IF embedded /\ upsert_ok
                 THEN qdrant \cup {Point("memory_lessons", req.rid, 0, 0,
                                         FALSE, req.seq)}
                 ELSE qdrant
    /\ requests' = [requests EXCEPT ![s] = [req EXCEPT !.pc = "audit"]]
    /\ UNCHANGED <<admin_response, background, miner, config_response, now, memory_settings, shared_columns, chunker, memory_agents,
                   api_keys, memories, memory_documents, memories_shared,
                   memory_lessons, memory_audit_log, rate_limits, admitted,
                   reqSeq, adminOps, nextId>>

\* a lesson id of the path: one of the lessons, or 0 for an id of no lesson
LessonIdInputs == DOMAIN memory_lessons \cup {0}

\* the status a LessonUpdate can carry (Optional[str]): absent, one of the
\* three statuses, or any other string
StatusInputs == LessonStatuses \cup {"none", "published"}

\* lines 251-270 of update_lesson; status "none" is a body without status
UpdateLesson(s, lesson_id, status, commit_ok) ==
    LET req == requests[s] IN
    /\ req.pc = "handler" /\ req.kind = "update_lesson"
    /\ IF lesson_id \notin DOMAIN memory_lessons
       THEN /\ requests' = [requests EXCEPT ![s] = Respond(req, 404)]
            /\ UNCHANGED memory_lessons
       ELSE IF ~commit_ok
       THEN /\ requests' = [requests EXCEPT ![s] = Respond(req, 500)]
            /\ UNCHANGED memory_lessons
       ELSE /\ memory_lessons' = [memory_lessons EXCEPT ![lesson_id] =
                  [@ EXCEPT !.updated_at = now,
                            !.status = IF status = "none" THEN @ ELSE status]]
            /\ requests' = [requests EXCEPT ![s] =
                  [req EXCEPT !.pc = "audit", !.rid = lesson_id,
                              !.committed = TRUE]]
    /\ UNCHANGED <<admin_response, background, miner, config_response, now, memory_settings, shared_columns, chunker, memory_agents,
                   api_keys, memories, memory_documents, memories_shared,
                   memory_audit_log, qdrant, rate_limits, admitted, reqSeq,
                   adminOps, nextId>>

(* ------------------------------- search -------------------------------- *)
\* SearchRequest: query, types ("both" unless sent), shared_only (False
\* unless sent) and limit (SearchLimitDefault unless sent)
SearchLimitDefault == 20
SearchTypes == {"both", "interactions", "lessons"}
SearchBodies ==
    [query : {<<"a">>}, types : SearchTypes, shared_only : BOOLEAN,
     limit : {1, SearchLimitDefault}]
PlainSearch ==
    [query |-> <<"a">>, types |-> "both", shared_only |-> FALSE,
     limit |-> SearchLimitDefault]

\* the interaction search of a request that asks for shared_only searches
\* the private collection all the same
SearchCollectionPrivate(shared_only) == "memory_interactions"

\* lines 143-145: the collection an interaction search queries
SearchCollection(shared_only) ==
    IF shared_only THEN "memory_interactions_shared" ELSE "memory_interactions"

\* lines 154-155: the collection a lesson search queries
LessonCollection(shared_only) ==
    IF shared_only THEN "memory_lessons_shared" ELSE "memory_lessons"

\* what search_vectors may return for a collection: up to limit of its
\* points (which ones is the vector store's scoring), or [] when the call
\* fails
Hits(collection, limit, ok) ==
    LET points == {p \in qdrant : p.collection = collection} IN
    IF ~ok THEN {{}}
    ELSE {h \in SUBSET points :
             Cardinality(h) = IF Cardinality(points) < limit
                              THEN Cardinality(points) ELSE limit}

\* a SearchResult: the id of the payload and the type tag; point is the
\* point it was made from
Result(p, type) == [id |-> p.ref, type |-> type, point |-> p]

\* lines 165-166: what results[:limit] may keep of the merged results
Truncated(results, limit) ==
    {r \in SUBSET results :
        Cardinality(r) = IF Cardinality(results) < limit
                         THEN Cardinality(results) ELSE limit}

\* where search_memories goes after the interaction search
AfterInteractions(req) ==
    IF req.types \in {"both", "lessons"} THEN "search_lessons" ELSE "merge"

\* lines 125-141: embed the query; without an embedding the handler returns
\* the empty response at once
SearchEmbed(s, body, embedded) ==
    LET req == requests[s]
        asked == [req EXCEPT !.query = body.query, !.types = body.types,
                             !.shared_only = body.shared_only,
                             !.limit = body.limit]
    IN
    /\ req.pc = "handler" /\ req.kind = "search"
    /\ requests' = [requests EXCEPT ![s] =
          IF ~embedded
          THEN Respond(Fault(asked, "query_embedding"), 200)
          ELSE [asked EXCEPT !.pc =
                    IF body.types \in {"both", "interactions"}
                    THEN "search_interactions" ELSE AfterInteractions(asked)]]
    /\ UNCHANGED <<admin_response, background, miner, config_response, now,
                   memory_settings, shared_columns, chunker, memory_agents, api_keys,
                   memories, memory_documents, memories_shared,
                   memory_lessons, memory_audit_log, qdrant, rate_limits,
                   admitted, reqSeq, adminOps, nextId>>

\* search_memories whose interaction search raises what the vector store
\* raised
SearchInteractionsRaises(s, hits, ok) ==
    LET req == requests[s] IN
    /\ req.pc = "search_interactions"
    /\ hits \in Hits(SearchCollection(req.shared_only), req.limit, ok)
    /\ requests' = [requests EXCEPT ![s] =
          IF ok
          THEN [req EXCEPT !.pc = AfterInteractions(req),
                   !.results = @ \cup {Result(p, "interaction") : p \in hits}]
          ELSE Respond(Fault(req, "search_interactions"), 500)]
    /\ UNCHANGED <<admin_response, background, miner, config_response, now,
                   memory_settings, shared_columns, chunker, memory_agents, api_keys,
                   memories, memory_documents, memories_shared,
                   memory_lessons, memory_audit_log, qdrant, rate_limits,
                   admitted, reqSeq, adminOps, nextId>>

\* lines 143-152: await search_vectors(col, ...) for the interactions
SearchInteractions(s, hits, ok) ==
    LET req == requests[s] IN
    /\ req.pc = "search_interactions"
    /\ hits \in Hits(SearchCollection(req.shared_only), req.limit, ok)
    /\ requests' = [requests EXCEPT ![s] =
          [req EXCEPT !.pc = AfterInteractions(req),
                      !.faults = IF ok THEN @
                                 ELSE @ \cup {"search_interactions"},
                      !.results = @ \cup {Result(p, "interaction") :
                                             p \in hits}]]
    /\ UNCHANGED <<admin_response, background, miner, config_response, now,
                   memory_settings, shared_columns, chunker, memory_agents, api_keys,
                   memories, memory_documents, memories_shared,
                   memory_lessons, memory_audit_log, qdrant, rate_limits,
                   admitted, reqSeq, adminOps, nextId>>

\* lines 154-163: await search_vectors(col, ...) for the lessons
SearchLessons(s, hits, ok) ==
    LET req == requests[s] IN
    /\ req.pc = "search_lessons"
    /\ hits \in Hits(LessonCollection(req.shared_only), req.limit, ok)
    /\ requests' = [requests EXCEPT ![s] =
          [req EXCEPT !.pc = "merge",
                      !.faults = IF ok THEN @ ELSE @ \cup {"search_lessons"},
                      !.results = @ \cup {Result(p, "lesson") : p \in hits}]]
    /\ UNCHANGED <<admin_response, background, miner, config_response, now,
                   memory_settings, shared_columns, chunker, memory_agents, api_keys,
                   memories, memory_documents, memories_shared,
                   memory_lessons, memory_audit_log, qdrant, rate_limits,
                   admitted, reqSeq, adminOps, nextId>>

\* lines 165-166: sort by score and truncate; log_audit follows
SearchMerge(s, kept) ==
    LET req == requests[s] IN
    /\ req.pc = "merge"
    /\ kept \in Truncated(req.results, req.limit)
    /\ requests' = [requests EXCEPT ![s] =
          [req EXCEPT !.pc = "audit", !.results = kept]]
    /\ UNCHANGED <<admin_response, background, miner, config_response, now,
                   memory_settings, shared_columns, chunker, memory_agents, api_keys,
                   memories, memory_documents, memories_shared,
                   memory_lessons, memory_audit_log, qdrant, rate_limits,
                   admitted, reqSeq, adminOps, nextId>>

(* ------------------------ admin: memory explorer ----------------------- *)
\* ids a memory is asked for by: the ids drawn so far and one never drawn
MemoryIdInputs == 1..(MaxRequests + MaxAgents + 1)

\* the memory get_memory_detail returns: dict(row) with the entities decoded
MemoryDetail(row) ==
    [id |-> row.id, timestamp |-> row.timestamp, channel |-> row.channel,
     raw_text |-> row.raw_text, summary_text |-> row.summary_text,
     has_documents |-> row.has_documents,
     entities |-> JsonLoads(row.entities_json),
     documents |-> {d \in memory_documents : d.memory_id = row.id}]

\* GET /memories/{memory_id}
GetMemoryDetail(authorization, memory_id) ==
    LET rows == {m \in memories : m.id = memory_id}
        asked == [NoAdminRequest EXCEPT !.op = "get_memory_detail",
                                        !.memory_id = memory_id]
    IN
    /\ adminOps < MaxAdminOps
    /\ adminOps' = adminOps + 1
    /\ admin_response' =
          IF RequireAdminAuth(authorization) = NoUser
          THEN [asked EXCEPT !.status = 401]
          ELSE IF rows = {} THEN [asked EXCEPT !.status = 404]
          ELSE [asked EXCEPT !.status = 200,
                             !.body = <<MemoryDetail(CHOOSE m \in rows : TRUE)>>]
    /\ UNCHANGED <<background, miner, config_response, now, memory_settings,
                   shared_columns, chunker, memory_agents, api_keys, memories,
                   memory_documents, memories_shared, memory_lessons,
                   memory_audit_log, qdrant, rate_limits, admitted, requests,
                   reqSeq, nextId>>

\* the queries of the searches
Queries == {<<"a">>, <<"b">>}

\* lines 78-99: SELECT ... WHERE raw_text LIKE ? OR summary_text LIKE ?
FallbackRows(query) ==
    {m \in memories : Like(m.raw_text, query) \/ Like(m.summary_text, query)}

\* lines 101-106: row is a sqlite3.Row, which has no method get, so
\* row.get("entities_json", "[]") raises AttributeError for the first row
FallbackRaises(rows) == rows # {}

\* lines 112-132: one result per point of memory_interactions that
\* search_vectors returned and whose memory the SELECT found
AdminVectorResults(points) ==
    {[id |-> <<p.ref, p.chunk_index>>, memory_id |-> p.ref] :
        p \in {q \in points : \E m \in memories : m.id = q.ref}}

\* POST /search of the admin router; search_vectors returns [] when the
\* vector store fails
SearchMemoriesAdmin(authorization, query, embedded, search_ok) ==
    LET asked == [NoAdminRequest EXCEPT !.op = "search", !.query = query,
                                        !.embedded = embedded]
        rows == FallbackRows(query)
        points == IF search_ok
                  THEN {p \in qdrant : p.collection = "memory_interactions"}
                  ELSE {}
    IN
    /\ adminOps < MaxAdminOps
    /\ adminOps' = adminOps + 1
    /\ admin_response' =
          IF RequireAdminAuth(authorization) = NoUser
          THEN [asked EXCEPT !.status = 401]
          ELSE IF ~embedded
          THEN IF FallbackRaises(rows) THEN [asked EXCEPT !.status = 500]
               ELSE [asked EXCEPT !.status = 200]
          ELSE [asked EXCEPT !.status = 200,
                             !.results = AdminVectorResults(points)]
    /\ UNCHANGED <<background, miner, config_response, now, memory_settings,
                   shared_columns, chunker, memory_agents, api_keys, memories,
                   memory_documents, memories_shared, memory_lessons,
                   memory_audit_log, qdrant, rate_limits, admitted, requests,
                   reqSeq, nextId>>

(* --------------------------- admin: lessons ---------------------------- *)
\* POST /admin/lessons: the arguments of the INSERT read data.status, a
\* field LessonCreate does not have, so the handler raises AttributeError
\* after drawing the id and before the statement runs
CreateLessonAdmin(authorization) ==
    LET asked == [NoAdminRequest EXCEPT !.op = "create_lesson_admin"] IN
    /\ adminOps < MaxAdminOps
    /\ adminOps' = adminOps + 1
    /\ IF RequireAdminAuth(authorization) = NoUser
       THEN /\ admin_response' = [asked EXCEPT !.status = 401]
            /\ UNCHANGED nextId
       ELSE /\ admin_response' = [asked EXCEPT !.status = 500,
                                               !.lesson_id = nextId + 1]
            /\ nextId' = nextId + 1
    /\ UNCHANGED <<background, miner, config_response, now, memory_settings,
                   shared_columns, chunker, memory_agents, api_keys, memories,
                   memory_documents, memories_shared, memory_lessons,
                   memory_audit_log, qdrant, rate_limits, admitted, requests,
                   reqSeq>>

\* PUT /admin/lessons/{lesson_id}: 404 for an id of no lesson; otherwise
\* the handler reads data.lesson_type, a field LessonUpdate does not have,
\* and raises AttributeError inside the with block before the UPDATE
UpdateLessonAdmin(authorization, lesson_id) ==
    LET asked == [NoAdminRequest EXCEPT !.op = "update_lesson_admin",
                                        !.lesson_id = lesson_id]
    IN
    /\ adminOps < MaxAdminOps
    /\ adminOps' = adminOps + 1
    /\ admin_response' =
          IF RequireAdminAuth(authorization) = NoUser
          THEN [asked EXCEPT !.status = 401]
          ELSE IF lesson_id \notin DOMAIN memory_lessons
          THEN [asked EXCEPT !.status = 404]
          ELSE [asked EXCEPT !.status = 500]
    /\ UNCHANGED <<background, miner, config_response, now, memory_settings,
                   shared_columns, chunker, memory_agents, api_keys, memories,
                   memory_documents, memories_shared, memory_lessons,
                   memory_audit_log, qdrant, rate_limits, admitted, requests,
                   reqSeq, nextId>>

\* an admin lesson delete has committed and awaits delete_vector
DeletePending ==
    admin_response.op = "delete_lesson_admin" /\ admin_response.status = 0

\* DELETE /admin/lessons/{lesson_id}, lines 203-205: DELETE FROM
\* memory_lessons and the commit, whether or not the lesson exists
DeleteLessonAdminTxn(authorization, lesson_id, commit_ok) ==
    LET asked == [NoAdminRequest EXCEPT !.op = "delete_lesson_admin",
                                        !.lesson_id = lesson_id]
    IN
    /\ ~DeletePending
    /\ adminOps < MaxAdminOps
    /\ adminOps' = adminOps + 1
    /\ IF RequireAdminAuth(authorization) = NoUser
       THEN /\ admin_response' = [asked EXCEPT !.status = 401]
            /\ UNCHANGED memory_lessons
       ELSE IF ~commit_ok
       THEN /\ admin_response' = [asked EXCEPT !.status = 500]
            /\ UNCHANGED memory_lessons
       ELSE /\ admin_response' = asked
            /\ memory_lessons' =
                  [i \in DOMAIN memory_lessons \ {lesson_id} |->
                      memory_lessons[i]]
    /\ UNCHANGED <<background, miner, config_response, now, memory_settings,
                   shared_columns, chunker, memory_agents, api_keys, memories,
                   memory_documents, memories_shared,
                   memory_audit_log, qdrant, rate_limits, admitted, requests,
                   reqSeq, nextId>>

\* lines 206-207: delete_vector("memory_lessons", lesson_id), whose result
\* is not looked at, and the answer
DeleteLessonAdminVector(delete_ok) ==
    /\ DeletePending
    /\ qdrant' = IF delete_ok
                 THEN {p \in qdrant :
                         ~(/\ p.collection = "memory_lessons"
                           /\ p.ref = admin_response.lesson_id)}
                 ELSE qdrant
    /\ admin_response' = [admin_response EXCEPT !.status = 200]
    /\ UNCHANGED <<background, miner, config_response, now, memory_settings,
                   shared_columns, chunker, memory_agents, api_keys, memories,
                   memory_documents, memories_shared, memory_lessons,
                   memory_audit_log, rate_limits, admitted, requests,
                   reqSeq, adminOps, nextId>>

(* ------------------------------ chunk_text ----------------------------- *)
CharsPerToken == 4

Letter == "a"
Space == " "
Newline == "\n"
Period == "."
Alphabet == {Letter, Space, Newline, Period}

\* what str.strip() removes
Whitespace == {Space, Newline}

\* the texts of the calls: up to MaxTextLen characters, of which up to
\* MaxMarks are no letters
ChunkTexts ==
    UNION {{t \in [1..n -> Alphabet] :
              Cardinality({i \in 1..n : t[i] # Letter}) <= MaxMarks} :
           n \in 0..MaxTextLen}

\* chunk_size and chunk_overlap as memory_settings holds them: the settings
\* endpoint stores whatever integer it is sent
ChunkSizes == 1..MaxChunkSize
ChunkOverlaps == 0..MaxChunkOverlap

SetMax(S) == CHOOSE x \in S : \A y \in S : y <= x
SetMin(S) == CHOOSE x \in S : \A y \in S : x <= y

\* an index of a slice of a string of n characters: a negative one counts
\* from the end, and both ends are clipped to the string
SliceIndex(n, i) ==
    IF i < 0 THEN (IF i + n < 0 THEN 0 ELSE i + n)
    ELSE IF i > n THEN n ELSE i

\* text[i:j] as the range of the text it covers (lo characters skipped,
\* up to character hi)
Slice(text, i, j) ==
    LET lo == SliceIndex(Len(text), i)
        hi == SliceIndex(Len(text), j)
    IN [lo |-> lo, hi |-> IF hi < lo THEN lo ELSE hi]

Content(text, r) == SubSeq(text, r.lo + 1, r.hi)

\* r.strip(), as a range again
Strip(text, r) ==
    LET kept == {i \in (r.lo + 1)..r.hi : text[i] \notin Whitespace}
    IN IF kept = {} THEN [lo |-> r.lo, hi |-> r.lo]
       ELSE [lo |-> SetMin(kept) - 1, hi |-> SetMax(kept)]

\* chunk.rfind(sub)
Rfind(chunk, sub) ==
    LET hits == {i \in 0..(Len(chunk) - Len(sub)) :
                    SubSeq(chunk, i + 1, i + Len(sub)) = sub}
    IN IF hits = {} THEN -1 ELSE SetMax(hits)

SentenceEnds ==
    << <<".", Space>>, <<"!", Space>>, <<"?", Space>>,
       <<".", Newline>>, <<"!", Newline>>, <<"?", Newline>> >>

\* the for loop over the sentence ends: the first of the list that is found
\* past the middle of the window decides; 0 when none is
SentenceBreak(chunk, char_size) ==
    LET found == {k \in 1..Len(SentenceEnds) :
                     2 * Rfind(chunk, SentenceEnds[k]) > char_size}
    IN IF found = {} THEN 0
       ELSE LET sent_end == SentenceEnds[SetMin(found)]
            IN Rfind(chunk, sent_end) + Len(sent_end)

\* the break point of a window: paragraph, newline, sentence end (each past
\* char_size * 0.5), space (past char_size * 0.3), else the hard break
BreakPoint(chunk, char_size) ==
    LET para_break == Rfind(chunk, <<Newline, Newline>>)
        newline_break == Rfind(chunk, <<Newline>>)
        space_break == Rfind(chunk, <<Space>>)
    IN IF 2 * para_break > char_size THEN para_break + 2
       ELSE IF 2 * newline_break > char_size THEN newline_break + 1
       ELSE IF SentenceBreak(chunk, char_size) # 0
            THEN SentenceBreak(chunk, char_size)
       ELSE IF 10 * space_break > 3 * char_size THEN space_break + 1
       ELSE char_size

CharSize(chunk_size) == chunk_size * CharsPerToken

CharOverlapPlusOne(chunk_overlap) == chunk_overlap * CharsPerToken + 1

CharOverlap(chunk_overlap) == chunk_overlap * CharsPerToken

\* [c for c in chunks if c.strip()]
NonBlank(text, chunks) ==
    SelectSeq(chunks, LAMBDA r : Strip(text, r).hi > Strip(text, r).lo)

\* chunk_text up to its loop: nothing for an empty text, the text itself
\* when it fits in one window, else the loop starts at 0
ChunkTextEnter ==
    /\ chunker.pc = "called"
    /\ chunker' =
          IF chunker.text = <<>>
          THEN [chunker EXCEPT !.pc = "returned", !.result = <<>>]
          ELSE IF Len(chunker.text) <= CharSize(chunker.chunk_size)
          THEN [chunker EXCEPT
                   !.pc = "returned",
                   !.result = <<Slice(chunker.text, 0, Len(chunker.text))>>]
          ELSE [chunker EXCEPT !.pc = "loop", !.start = 0, !.chunks = <<>>]
    /\ UNCHANGED <<now, memory_settings, shared_columns, memory_agents,
                   api_keys, memories, memory_documents, memories_shared,
                   memory_lessons, memory_audit_log, qdrant, rate_limits,
                   admitted, requests, reqSeq, adminOps, config_response,
                   admin_response, background, miner, nextId>>

\* one pass of the while loop, from its test to the next test: the rest of
\* the text when the window reaches the end (and the return that follows
\* the break), else the stripped text up to the break point, and the next
\* window starts char_overlap before it
ChunkTextIterate ==
    LET text == chunker.text
        start == chunker.start
        char_size == CharSize(chunker.chunk_size)
        char_overlap == CharOverlap(chunker.chunk_overlap)
        end == start + char_size
        chunk == Content(text, Slice(text, start, end))
        break_point == BreakPoint(chunk, char_size)
        rest == Append(chunker.chunks, Slice(text, start, Len(text)))
    IN
    /\ chunker.pc = "loop"
    /\ chunker.iterations < MaxIterations
    /\ chunker' =
          IF ~(start < Len(text))
          THEN [chunker EXCEPT !.pc = "returned",
                               !.result = NonBlank(text, chunker.chunks)]
          ELSE IF end >= Len(text)
          THEN [chunker EXCEPT !.pc = "returned", !.chunks = rest,
                               !.iterations = @ + 1,
                               !.result = NonBlank(text, rest)]
          ELSE [chunker EXCEPT
                   !.chunks = Append(@, Strip(text, Slice(text, start,
                                                    start + break_point))),
                   !.start = start + break_point - char_overlap,
                   !.iterations = @ + 1]
    /\ UNCHANGED <<now, memory_settings, shared_columns, memory_agents,
                   api_keys, memories, memory_documents, memories_shared,
                   memory_lessons, memory_audit_log, qdrant, rate_limits,
                   admitted, requests, reqSeq, adminOps, config_response,
                   admin_response, background, miner, nextId>>

\* a call of chunk_text on every text and every pair of settings
InitChunker ==
    /\ now = 0
    /\ memory_settings = DefaultSettings
    /\ shared_columns = "declared"
    /\ memory_agents = <<>>
    /\ api_keys = <<>>
    /\ memories = {}
    /\ memory_documents = {}
    /\ memories_shared = {}
    /\ memory_lessons = <<>>
    /\ memory_audit_log = <<>>
    /\ qdrant = {}
    /\ rate_limits = <<>>
    /\ admitted = <<>>
    /\ requests = [s \in Slots |-> IdleRequest]
    /\ reqSeq = 0
    /\ adminOps = 0
    /\ config_response = NoConfigRequest
    /\ admin_response = NoAdminRequest
    /\ background = NoTask
    /\ miner = IdleMiner
    /\ nextId = 0
    /\ \E text \in ChunkTexts, chunk_size \in ChunkSizes,
          chunk_overlap \in ChunkOverlaps :
          chunker = [IdleChunker EXCEPT !.pc = "called", !.text = text,
                                        !.chunk_size = chunk_size,
                                        !.chunk_overlap = chunk_overlap]

NextChunker == ChunkTextEnter \/ ChunkTextIterate

SpecChunker == InitChunker /\ [][NextChunker]_vars

(* -------------------------- background tasks --------------------------- *)
SleepSeconds == 300
DaySeconds == 86400
WeekDays == 7
MinerClusterLimit == 10

\* the clock moves on by a whole wait
Elapse(step) ==
    /\ now + step <= MaxClock
    /\ now' = now + step
    /\ UNCHANGED <<admin_response, background, miner, memory_settings,
                   shared_columns, chunker, memory_agents, api_keys, memories,
                   memory_documents, memories_shared, memory_lessons,
                   memory_audit_log, qdrant, rate_limits, admitted, requests,
                   reqSeq, adminOps, config_response, nextId>>

\* created_at > datetime('now', '-7 days'): created_at is an isoformat
\* string ("...T...") and the bound an SQLite one ("... ..."), compared as
\* text, so the date decides and the same date counts as later
WithinSevenDays(created_at) ==
    created_at \div DaySeconds >= (now \div DaySeconds) - WeekDays

\* the tasks of the loop that no cancel has been asked of
Runnable ==
    {t \in DOMAIN background.tasks : ~background.tasks[t].cancelled}

StartBackgroundTasksUnguarded ==
    /\ Len(background.tasks) < MaxTasks
    /\ background' =
          [background EXCEPT !.pc = "created", !.last_start = "created",
                             !.task = Len(background.tasks) + 1,
                             !.tasks = Append(@, NewTask)]
    /\ UNCHANGED <<admin_response, miner, now, memory_settings,
                   shared_columns, chunker, memory_agents, api_keys, memories,
                   memory_documents, memories_shared, memory_lessons,
                   memory_audit_log, qdrant, rate_limits, admitted, requests,
                   reqSeq, adminOps, config_response, nextId>>

\* start_background_tasks: a task of the loop is created when _task is None,
\* and nothing happens otherwise
StartBackgroundTasks ==
    /\ background.task = 0 => Len(background.tasks) < MaxTasks
    /\ background' =
          IF background.task = 0
          THEN [background EXCEPT !.pc = "created", !.last_start = "created",
                                  !.task = Len(background.tasks) + 1,
                                  !.tasks = Append(@, NewTask)]
          ELSE [background EXCEPT !.last_start = "ignored"]
    /\ UNCHANGED <<admin_response, miner, now, memory_settings,
                   shared_columns, chunker, memory_agents, api_keys, memories,
                   memory_documents, memories_shared, memory_lessons,
                   memory_audit_log, qdrant, rate_limits, admitted, requests,
                   reqSeq, adminOps, config_response, nextId>>

\* what a call of the miner leaves behind when it ends
Returned(m, status) ==
    [IdleMiner EXCEPT !.run = m.run, !.status = status,
                      !.threshold = m.threshold, !.clusters = m.clusters,
                      !.lessons_created = m.lessons_created,
                      !.seen = m.seen, !.started_at = m.started_at,
                      !.faults = m.faults]

\* stop_background_tasks: the flag is cleared and the task cancelled where
\* it is suspended; CancelledError passes the "except Exception" handlers,
\* so a miner inside its transaction is rolled back and nothing follows
StopBackgroundTasks ==
    /\ IF background.task = 0
       THEN /\ background' = [background EXCEPT !.running = FALSE]
            /\ UNCHANGED miner
       ELSE /\ background' =
                  [background EXCEPT
                      !.running = FALSE, !.pc = "none", !.task = 0,
                      !.tasks[background.task].cancelled = TRUE,
                      !.interrupted = IF background.pc = "mining"
                                      THEN miner.pc ELSE background.pc]
            /\ miner' = IF background.pc = "mining"
                        THEN Returned(miner, "cancelled") ELSE miner
    /\ UNCHANGED <<admin_response, now, memory_settings,
                   shared_columns, chunker, memory_agents, api_keys, memories,
                   memory_documents, memories_shared, memory_lessons,
                   memory_audit_log, qdrant, rate_limits, admitted, requests,
                   reqSeq, adminOps, config_response, nextId>>

\* sync_to_openclaw after its own read of the settings: no path, a failing
\* directory, or mem.get on a sqlite3.Row (any memory at all) is an error
ExportStatus(fs_ok) ==
    IF memory_settings.openclaw_sync_path = "" THEN "error"
    ELSE IF ~fs_ok \/ memories # {} THEN "error"
    ELSE "success"

\* the clusters query: recent memories grouped by entities_json, groups of
\* at least threshold rows, largest first, at most MinerClusterLimit
RecentMemories == {m \in memories : WithinSevenDays(m.created_at)}

ClusterCount(entities_json) ==
    Cardinality({m \in RecentMemories : m.entities_json = entities_json})

Clusters(threshold) ==
    {j \in {m.entities_json : m \in RecentMemories} :
        ClusterCount(j) >= threshold}

ClusterOrders(threshold) ==
    LET all == Clusters(threshold)
        n == IF Cardinality(all) < MinerClusterLimit
             THEN Cardinality(all) ELSE MinerClusterLimit
    IN {f \in [1..n -> all] :
          /\ \A i, j \in 1..n : i < j =>
                /\ f[i] # f[j]
                /\ ClusterCount(f[i]) >= ClusterCount(f[j])
          /\ \A q \in all \ {f[i] : i \in 1..n} :
                \A i \in 1..n : ClusterCount(f[i]) >= ClusterCount(q)}

\* next(e for e in entities if e.get("role") == "primary", entities[0])
PrimaryEntity(entities) ==
    IF \E i \in 1..Len(entities) : Get(entities[i], K_role, <<>>) = V_primary
    THEN entities[CHOOSE i \in 1..Len(entities) :
            /\ Get(entities[i], K_role, <<>>) = V_primary
            /\ \A j \in 1..(i - 1) :
                  Get(entities[j], K_role, <<>>) # V_primary]
    ELSE entities[1]

\* the lesson rows the cursor of the miner reads: the committed ones and
\* those of its own open transaction
VisibleLessons(inserted) ==
    {memory_lessons[i] : i \in DOMAIN memory_lessons}
    \cup {inserted[i].row : i \in 1..Len(inserted)}

\* SELECT id FROM memory_lessons WHERE related_entities_json LIKE '%name%'
\* AND created_at > datetime('now', '-7 days')
HasRecentLesson(rows, entities) ==
    \E r \in rows :
        /\ Like(r.related_entities_json,
                Get(PrimaryEntity(entities), K_name, <<>>))
        /\ WithinSevenDays(r.created_at)

\* the for loop from cluster k up to its next await: clusters with no
\* entities, with a recent lesson or without a prompt are passed over
RECURSIVE NextCluster(_, _, _, _)
NextCluster(clusters, k, rows, prompt_ok) ==
    IF k > Len(clusters) THEN k
    ELSE LET entities == JsonLoads(clusters[k]) IN
         IF \/ entities = <<>>
            \/ HasRecentLesson(rows, entities)
            \/ ~prompt_ok
         THEN NextCluster(clusters, k + 1, rows, prompt_ok)
         ELSE k

\* the miner goes on from cluster "from" in iteration b of the loop: it
\* stops at the next call_llm, or leaves the loop, commits and returns
MineOn(b, m, from, prompt_ok, commit_ok) ==
    LET k == NextCluster(m.clusters, from, VisibleLessons(m.inserted),
                         prompt_ok)
        faults == m.faults \cup (IF prompt_ok THEN {} ELSE {"prompt"})
                           \cup (IF commit_ok \/ k <= Len(m.clusters)
                                 THEN {} ELSE {"commit"})
    IN IF k <= Len(m.clusters)
       THEN /\ miner' = [m EXCEPT !.pc = "llm", !.k = k, !.faults = faults]
            /\ background' = [b EXCEPT !.pc = "mining", !.mined = "running"]
            /\ UNCHANGED memory_lessons
       ELSE /\ miner' = Returned([m EXCEPT !.faults = faults],
                                 IF commit_ok THEN "success" ELSE "error")
            /\ background' =
                  [b EXCEPT !.pc = "sleep", !.wake_at = now + SleepSeconds,
                            !.mined = IF commit_ok THEN "success"
                                      ELSE "error"]
            /\ memory_lessons' =
                  IF commit_ok
                  THEN memory_lessons @@
                       [i \in {m.inserted[n].id : n \in 1..Len(m.inserted)}
                          |-> (CHOOSE r \in {m.inserted[n] :
                                               n \in 1..Len(m.inserted)} :
                                  r.id = i).row]
                  ELSE memory_lessons

\* an exception inside the try of mine_lessons: the transaction is rolled
\* back and the call returns the error status
MineRaises(fault) ==
    /\ miner' = Returned([miner EXCEPT !.faults = @ \cup {fault}], "error")
    /\ background' =
          [background EXCEPT !.pc = "sleep", !.wake_at = now + SleepSeconds,
                             !.mined = "error"]
    /\ UNCHANGED memory_lessons

\* which read of the settings fails in an iteration, if any: the one of the
\* loop, the one of sync_to_openclaw or the one of mine_lessons
SettingsFailures == {"none", "loop", "export", "mine"}

\* background_task_loop from the top of an iteration to its next await:
\* the flag (set on entry), the settings, the export, and the miner up to
\* its first call_llm or its return; whatever raises lands in the one
\* except clause, after which the loop sleeps
LoopWake(db, fs_ok, order, prompt_ok, commit_ok) ==
    \E t \in Runnable :
    LET running == background.pc = "created" \/ background.running
        b0 == [background EXCEPT
                  !.running = TRUE, !.tick = @ + 1,
                  !.tasks[t].ticks = @ + 1,
                  !.export_due = FALSE, !.mine_due = FALSE,
                  !.exported = "none", !.mined = "none", !.failed = {}]
        asleep == [b0 EXCEPT !.pc = "sleep", !.wake_at = now + SleepSeconds]
        b1 == [b0 EXCEPT
                  !.export_due = memory_settings.openclaw_sync_enabled,
                  !.mine_due = memory_settings.auto_lesson_enabled]
        b2 == [b1 EXCEPT !.exported = IF b1.export_due
                                      THEN ExportStatus(fs_ok) ELSE "none"]
        m0 == [IdleMiner EXCEPT
                  !.run = miner.run + 1,
                  !.threshold = memory_settings.auto_lesson_threshold,
                  !.clusters = order,
                  !.seen = {m.id : m \in memories},
                  !.started_at = now]
    IN
    /\ background.pc \in {"created", "sleep"}
    /\ background.pc = "sleep" => now >= background.wake_at
    /\ background.tick < MaxTicks
    /\ db = "export" => memory_settings.openclaw_sync_enabled
    /\ db = "mine" => memory_settings.auto_lesson_enabled
    /\ IF ~running
       THEN /\ background' = [background EXCEPT !.pc = "returned"]
            /\ UNCHANGED <<miner, memory_lessons>>
       ELSE IF db = "loop"
       THEN /\ background' = [asleep EXCEPT !.failed = {"settings"}]
            /\ UNCHANGED <<miner, memory_lessons>>
       ELSE IF b1.export_due /\ db = "export"
       THEN /\ background' =
                  [b1 EXCEPT !.pc = "sleep", !.wake_at = now + SleepSeconds,
                             !.exported = "raised", !.failed = {"export"}]
            /\ UNCHANGED <<miner, memory_lessons>>
       ELSE IF ~b1.mine_due
       THEN /\ background' =
                  [b2 EXCEPT !.pc = "sleep", !.wake_at = now + SleepSeconds]
            /\ UNCHANGED <<miner, memory_lessons>>
       ELSE IF db = "mine"
       THEN /\ background' =
                  [b2 EXCEPT !.pc = "sleep", !.wake_at = now + SleepSeconds,
                             !.mined = "raised", !.failed = {"mine"}]
            /\ UNCHANGED <<miner, memory_lessons>>
       ELSE MineOn(b2, m0, 1, prompt_ok, commit_ok)
    /\ UNCHANGED <<admin_response, now, memory_settings,
                   shared_columns, chunker, memory_agents, api_keys, memories,
                   memory_documents, memories_shared,
                   memory_audit_log, qdrant, rate_limits, admitted, requests,
                   reqSeq, adminOps, config_response, nextId>>

\* what call_llm returns to the miner: nothing, text that is no JSON, JSON
\* that is no object, or a JSON object
LessonAnswers == {"", "invalid", "array", "object"}

\* the row the miner inserts for the cluster it is at; the interactions it
\* selected have no id column, so source_memory_ids_json is "[]"; run and
\* seen tell which call inserted it and which memories there were when it
\* began
MinedRow(m) ==
    [status |-> "draft", updated_at |-> now, created_at |-> now,
     related_entities_json |-> JsonDumps(JsonLoads(m.clusters[m.k])),
     source_memory_ids |-> {}, req |-> 0, run |-> m.run, seen |-> m.seen]

\* the miner wakes from call_llm: an empty or unparsable answer passes to
\* the next cluster, lesson_data.get on a non-object raises, and an object
\* is inserted as a draft before generate_embedding is awaited
MineLlm(answer, prompt_ok, commit_ok) ==
    /\ background.pc = "mining" /\ miner.pc = "llm"
    /\ CASE answer = "" ->
              /\ MineOn(background, [miner EXCEPT !.faults = @ \cup {"llm"}],
                        miner.k + 1, prompt_ok, commit_ok)
              /\ UNCHANGED nextId
         [] answer = "invalid" ->
              /\ MineOn(background, [miner EXCEPT !.faults = @ \cup {"json"}],
                        miner.k + 1, prompt_ok, commit_ok)
              /\ UNCHANGED nextId
         [] answer = "array" ->
              /\ MineRaises("lesson_data")
              /\ UNCHANGED nextId
         [] OTHER ->
              /\ nextId' = nextId + 1
              /\ miner' = [miner EXCEPT
                    !.pc = "embed", !.lesson_id = nextId + 1,
                    !.inserted = Append(@, [id |-> nextId + 1,
                                            row |-> MinedRow(miner)])]
              /\ UNCHANGED <<background, memory_lessons>>
    /\ UNCHANGED <<admin_response, now, memory_settings,
                   shared_columns, chunker, memory_agents, api_keys, memories,
                   memory_documents, memories_shared,
                   memory_audit_log, qdrant, rate_limits, admitted, requests,
                   reqSeq, adminOps, config_response>>

\* the miner wakes from generate_embedding: with an embedding it awaits
\* upsert_vector, without one it counts the lesson and goes on
MineEmbed(embedded, prompt_ok, commit_ok) ==
    /\ background.pc = "mining" /\ miner.pc = "embed"
    /\ IF embedded
       THEN /\ miner' = [miner EXCEPT !.pc = "upsert"]
            /\ UNCHANGED <<background, memory_lessons>>
       ELSE MineOn(background,
                   [miner EXCEPT !.lessons_created = @ + 1],
                   miner.k + 1, prompt_ok, commit_ok)
    /\ UNCHANGED <<admin_response, now, memory_settings,
                   shared_columns, chunker, memory_agents, api_keys, memories,
                   memory_documents, memories_shared,
                   memory_audit_log, qdrant, rate_limits, admitted, requests,
                   reqSeq, adminOps, config_response, nextId>>

\* the miner wakes from upsert_vector, counts the lesson and goes on
MineUpsert(upsert_ok, prompt_ok, commit_ok) ==
    /\ background.pc = "mining" /\ miner.pc = "upsert"
    /\ qdrant' = IF upsert_ok
                 THEN qdrant \cup {Point("memory_lessons", miner.lesson_id,
                                         0, 0, FALSE, 0)}
                 ELSE qdrant
    /\ MineOn(background, [miner EXCEPT !.lessons_created = @ + 1],
              miner.k + 1, prompt_ok, commit_ok)
    /\ UNCHANGED <<admin_response, now, memory_settings,
                   shared_columns, chunker, memory_agents, api_keys, memories,
                   memory_documents, memories_shared,
                   memory_audit_log, rate_limits, admitted, requests,
                   reqSeq, adminOps, config_response, nextId>>

(* ------------------------------- audit --------------------------------- *)
ResourceType(kind) ==
    CASE kind = "ingest_interaction" -> "memory"
      [] kind \in {"create_lesson", "update_lesson"} -> "lesson"
      [] OTHER -> "none"

\* the details argument of log_audit: the channel of an ingest, the query
\* and len(results) of a search, nothing for the lesson handlers
AuditDetails(req) ==
    CASE req.kind = "ingest_interaction" -> <<req.channel>>
      [] req.kind = "search" -> <<req.query, Cardinality(req.results)>>
      [] OTHER -> <<>>

\* the row log_audit inserts for the request
AuditRow(req) ==
    [agent_id |-> req.agent, action |-> req.kind,
     resource_type |-> ResourceType(req.kind), resource_id |-> req.rid,
     details |-> AuditDetails(req), req |-> req.seq]

\* log_audit that inserts its row twice
LogAuditTwice(req) ==
    Append(Append(memory_audit_log, AuditRow(req)), AuditRow(req))

\* memory_audit_log after a log_audit whose transaction commits
LogAudit(req) == Append(memory_audit_log, AuditRow(req))

\* RelatedEntity(**e): entity_type and entity_id are required fields
ValidReference(e) == HasKey(e, K_entity_type) /\ HasKey(e, K_entity_id)

\* lines 113-116 of ingest_interaction: building the InteractionResponse
\* raises a ValidationError when an entity of entities_list is no
\* RelatedEntity
ResponseRaises(req) ==
    /\ req.kind = "ingest_interaction"
    /\ \E k \in 1..Len(req.entities) : ~ValidReference(req.entities[k])

\* the last stretch of every handler: log_audit(...) and the return;
\* log_audit raises what its INSERT or commit raises and no caller catches it
AuditAndRespond(s, audit_ok) ==
    LET req == requests[s] IN
    /\ req.pc = "audit"
    /\ IF audit_ok
       THEN /\ memory_audit_log' = LogAudit(req)
            /\ requests' = [requests EXCEPT ![s] =
                  IF ResponseRaises(req)
                  THEN Respond(Fault(req, "response"), 500)
                  ELSE Respond(req, 200)]
       ELSE /\ UNCHANGED memory_audit_log
            /\ requests' = [requests EXCEPT ![s] =
                  Respond(Fault([req EXCEPT !.audit_failed = TRUE],
                                "audit"), 500)]
    /\ UNCHANGED <<admin_response, background, miner, config_response, now, memory_settings, shared_columns, chunker, memory_agents,
                   api_keys, memories, memory_documents, memories_shared,
                   memory_lessons, qdrant, rate_limits, admitted, reqSeq,
                   adminOps, nextId>>

(* ----------------------------- specification --------------------------- *)
\* every operation with every input of the bounded sets
Next ==
    \/ Tick
    \/ \E h \in Authorizations : CreateAgent(h)
    \/ \E h \in Authorizations, a \in AgentIds, is_active \in BOOLEAN :
            UpdateAgent(h, a, is_active)
    \/ \E h \in Authorizations, a \in AgentIds : DeleteAgent(h, a)
    \/ \E h \in Authorizations : ListAgents(h)
    \/ \E h \in Authorizations : GetSettings(h)
    \/ \E h \in Authorizations, data \in SettingsBodies :
            UpdateSettings(h, data)
    \/ \E s \in Slots, kind \in Kinds, key \in Headers : Auth(s, kind, key)
    \/ \E s \in Slots, well_formed \in BOOLEAN :
            IngestGate(s, well_formed, PlainForm)
    \/ \E s \in Slots, files \in FileParses(MaxFiles),
          chunks \in 0..MaxChunks, embedded \in BOOLEAN,
          scrub_ok \in BOOLEAN, scrubbed \in 0..MaxChunks,
          scrub_embedded \in BOOLEAN :
            IngestEnrich(s, files, NoLlm, chunks, embedded, scrub_ok,
                         scrubbed, scrub_embedded)
    \/ \E s \in Slots, insert_ok \in BOOLEAN, commit_ok \in BOOLEAN :
            IngestTxn(s, insert_ok, commit_ok)
    \/ \E s \in Slots, ok \in BOOLEAN : IngestSharedUpsert(s, ok)
    \/ \E s \in Slots, ok \in BOOLEAN : IngestCommit(s, ok)
    \/ \E s \in Slots, ok \in BOOLEAN : IngestUpsert(s, ok)
    \/ \E s \in Slots, source_memory_ids \in SourceInputs :
            CreateLessonStart(s, source_memory_ids)
    \/ \E s \in Slots, ok \in BOOLEAN : CreateLessonTxn(s, ok)
    \/ \E s \in Slots, embedded \in BOOLEAN, ok \in BOOLEAN :
            CreateLessonUpsert(s, embedded, ok)
    \/ \E s \in Slots, lesson_id \in LessonIdInputs,
          status \in StatusInputs, ok \in BOOLEAN :
            UpdateLesson(s, lesson_id, status, ok)
    \/ \E s \in Slots, body \in SearchBodies, embedded \in BOOLEAN :
            SearchEmbed(s, body, embedded)
    \/ \E s \in Slots, hits \in SUBSET qdrant, ok \in BOOLEAN :
            SearchInteractions(s, hits, ok)
    \/ \E s \in Slots, hits \in SUBSET qdrant, ok \in BOOLEAN :
            SearchLessons(s, hits, ok)
    \/ \E s \in Slots : \E kept \in SUBSET requests[s].results :
            SearchMerge(s, kept)
    \/ \E s \in Slots, ok \in BOOLEAN : AuditAndRespond(s, ok)
    \/ \E authorization \in Authorizations, memory_id \in MemoryIdInputs :
            ~DeletePending /\ GetMemoryDetail(authorization, memory_id)
    \/ \E authorization \in Authorizations, query \in Queries,
          embedded \in BOOLEAN, search_ok \in BOOLEAN :
            /\ ~DeletePending
            /\ SearchMemoriesAdmin(authorization, query, embedded, search_ok)
    \/ \E authorization \in Authorizations :
            ~DeletePending /\ CreateLessonAdmin(authorization)
    \/ \E authorization \in Authorizations, lesson_id \in LessonIdInputs :
            ~DeletePending /\ UpdateLessonAdmin(authorization, lesson_id)
    \/ \E authorization \in Authorizations, lesson_id \in LessonIdInputs,
          commit_ok \in BOOLEAN :
            DeleteLessonAdminTxn(authorization, lesson_id, commit_ok)
    \/ \E delete_ok \in BOOLEAN : DeleteLessonAdminVector(delete_ok)
    \/ \E agent_id \in AgentIds : CheckRateLimit(agent_id)
    \/ \E step \in {SleepSeconds, (WeekDays + 1) * DaySeconds} : Elapse(step)
    \/ StartBackgroundTasks
    \/ StopBackgroundTasks
    \/ \E db \in SettingsFailures, fs_ok \in BOOLEAN,
          order \in ClusterOrders(memory_settings.auto_lesson_threshold),
          prompt_ok \in BOOLEAN, commit_ok \in BOOLEAN :
            LoopWake(db, fs_ok, order, prompt_ok, commit_ok)
    \/ \E answer \in LessonAnswers, prompt_ok \in BOOLEAN,
          commit_ok \in BOOLEAN : MineLlm(answer, prompt_ok, commit_ok)
    \/ \E embedded \in BOOLEAN, prompt_ok \in BOOLEAN, commit_ok \in BOOLEAN :
            MineEmbed(embedded, prompt_ok, commit_ok)
    \/ \E upsert_ok \in BOOLEAN, prompt_ok \in BOOLEAN, commit_ok \in BOOLEAN :
            MineUpsert(upsert_ok, prompt_ok, commit_ok)

Spec == Init /\ [][Next]_vars

\* The gate under every credential and every change a logged-in admin makes
\* to the agents and the rate limit, with stores and upstream services that
\* do not fail.
NextGate ==
    \/ Tick
    \/ CreateAgent(UserBearer)
    \/ \E a \in AgentIds, is_active \in BOOLEAN :
            UpdateAgent(UserBearer, a, is_active)
    \/ \E a \in AgentIds : DeleteAgent(UserBearer, a)
    \/ \E data \in RateBodies : UpdateSettings(UserBearer, data)
    \/ \E s \in Slots, kind \in Kinds, key \in Headers : Auth(s, kind, key)
    \/ \E s \in Slots : IngestGate(s, TRUE, PlainForm)
    \/ \E s \in Slots :
            IngestEnrich(s, [k \in 1..MaxFiles |-> TRUE], NoLlm, MaxChunks,
                         TRUE, TRUE, 0, FALSE)
    \/ \E s \in Slots : IngestTxn(s, TRUE, TRUE)
    \/ \E s \in Slots : IngestUpsert(s, TRUE)
    \/ \E s \in Slots : CreateLessonStart(s, {})
    \/ \E s \in Slots : CreateLessonTxn(s, TRUE)
    \/ \E s \in Slots : CreateLessonUpsert(s, TRUE, TRUE)
    \/ \E s \in Slots, lesson_id \in LessonIdInputs :
            UpdateLesson(s, lesson_id, "approved", TRUE)
    \/ \E s \in Slots : SearchEmbed(s, PlainSearch, TRUE)
    \/ \E s \in Slots, hits \in SUBSET qdrant :
            SearchInteractions(s, hits, TRUE)
    \/ \E s \in Slots, hits \in SUBSET qdrant : SearchLessons(s, hits, TRUE)
    \/ \E s \in Slots : \E kept \in SUBSET requests[s].results :
            SearchMerge(s, kept)
    \/ \E s \in Slots : AuditAndRespond(s, TRUE)

SpecGate == Init /\ [][NextGate]_vars

\* The mutating handlers of authenticated agents under every failure of the
\* relational store, the vector store and the embedding provider, with files
\* that parse and a redaction service that answers.
NextIngest ==
    \/ CreateAgent(UserBearer)
    \/ \E data \in ShareBodies : UpdateSettings(UserBearer, data)
    \/ \E s \in Slots, kind \in MutatingKinds, a \in DOMAIN memory_agents :
            Auth(s, kind, memory_agents[a].api_key_hash)
    \/ \E s \in Slots, well_formed \in BOOLEAN :
            IngestGate(s, well_formed, PlainForm)
    \/ \E s \in Slots, n \in 0..MaxFiles, chunks \in 0..MaxChunks,
          embedded \in BOOLEAN, scrubbed \in 0..MaxChunks,
          scrub_embedded \in BOOLEAN :
            IngestEnrich(s, [k \in 1..n |-> TRUE], NoLlm, chunks, embedded,
                         TRUE, scrubbed, scrub_embedded)
    \/ \E s \in Slots, insert_ok \in BOOLEAN, commit_ok \in BOOLEAN :
            IngestTxn(s, insert_ok, commit_ok)
    \/ \E s \in Slots, ok \in BOOLEAN : IngestSharedUpsert(s, ok)
    \/ \E s \in Slots, ok \in BOOLEAN : IngestCommit(s, ok)
    \/ \E s \in Slots, ok \in BOOLEAN : IngestUpsert(s, ok)
    \/ \E s \in Slots : CreateLessonStart(s, {})
    \/ \E s \in Slots, ok \in BOOLEAN : CreateLessonTxn(s, ok)
    \/ \E s \in Slots, embedded \in BOOLEAN, ok \in BOOLEAN :
            CreateLessonUpsert(s, embedded, ok)
    \/ \E s \in Slots, lesson_id \in LessonIdInputs,
          status \in LessonStatuses \cup {"none"}, ok \in BOOLEAN :
            UpdateLesson(s, lesson_id, status, ok)
    \/ \E s \in Slots, ok \in BOOLEAN : AuditAndRespond(s, ok)

SpecIngest == Init /\ [][NextIngest]_vars

\* The service as server.py mounts it: the ingest of memory_routes beside
\* changes of the rate limit, with every request carried through the
\* stages the two handlers have in common.
NextRoutes ==
    \/ Tick
    \/ DOMAIN memory_agents = {} /\ CreateAgent(UserBearer)
    \/ \E data \in RateBodies : UpdateSettings(UserBearer, data)
    \/ \E s \in Slots, a \in DOMAIN memory_agents :
            Auth(s, "ingest_interaction", memory_agents[a].api_key_hash)
    \/ \E s \in Slots, well_formed \in BOOLEAN :
            RoutesIngestGate(s, well_formed, PlainForm)
    \/ \E s \in Slots, embedded \in BOOLEAN :
            IngestEnrich(s, <<>>, NoLlm, MaxChunks, embedded, TRUE, 0, FALSE)
    \/ \E s \in Slots : IngestTxn(s, TRUE, TRUE)
    \/ \E s \in Slots : IngestUpsert(s, TRUE)
    \/ \E s \in Slots : AuditAndRespond(s, TRUE)

SpecRoutes == Init /\ [][NextRoutes]_vars

\* no request is being served
Quiet == \A s \in Slots : requests[s].pc \in {"idle", "done"}

\* Up to MaxPipelineRequests ingests that arrive one after the other, with
\* up to MaxPipelineFiles files and MaxPipelineChunks chunks, under every
\* outcome of parsing, redaction, embedding, the relational store, the
\* vector store and the audit log.
NextPipeline ==
    \/ CreateAgent(UserBearer)
    \/ \E data \in ShareBodies : UpdateSettings(UserBearer, data)
    \/ \E s \in Slots, a \in DOMAIN memory_agents :
            /\ Quiet /\ reqSeq < MaxPipelineRequests
            /\ Auth(s, "ingest_interaction", memory_agents[a].api_key_hash)
    \/ \E s \in Slots, well_formed \in BOOLEAN :
            IngestGate(s, well_formed, PlainForm)
    \/ \E s \in Slots, files \in FileParses(MaxPipelineFiles),
          chunks \in 0..MaxPipelineChunks, embedded \in BOOLEAN,
          scrub_ok \in BOOLEAN, scrubbed \in 0..MaxPipelineChunks,
          scrub_embedded \in BOOLEAN :
            IngestEnrich(s, files, NoLlm, chunks, embedded, scrub_ok,
                         scrubbed, scrub_embedded)
    \/ \E s \in Slots, insert_ok \in BOOLEAN, commit_ok \in BOOLEAN :
            IngestTxn(s, insert_ok, commit_ok)
    \/ \E s \in Slots, ok \in BOOLEAN : IngestSharedUpsert(s, ok)
    \/ \E s \in Slots, ok \in BOOLEAN : IngestCommit(s, ok)
    \/ \E s \in Slots, ok \in BOOLEAN : IngestUpsert(s, ok)
    \/ \E s \in Slots, ok \in BOOLEAN : AuditAndRespond(s, ok)

SpecPipeline == Init /\ [][NextPipeline]_vars

\* The /config endpoints for agents and settings under every Authorization
\* header.
NextConfig ==
    \/ \E h \in Authorizations : CreateAgent(h)
    \/ \E h \in Authorizations, a \in AgentIds, is_active \in BOOLEAN :
            UpdateAgent(h, a, is_active)
    \/ \E h \in Authorizations, a \in AgentIds : DeleteAgent(h, a)
    \/ \E h \in Authorizations : ListAgents(h)
    \/ \E h \in Authorizations : GetSettings(h)
    \/ \E h \in Authorizations, data \in SettingsBodies :
            UpdateSettings(h, data)

SpecConfig == Init /\ [][NextConfig]_vars

\* the forms of clients that send no entity, or two references in either
\* order
ReadForms ==
    {[text |-> <<"a", "b">>, channel |-> "call", entities |-> JsonDumps(<<>>)],
     [text |-> <<"a", "b">>, channel |-> "call",
      entities |-> JsonDumps(<<Reference(<<"1">>), Reference(<<"2">>)>>)],
     [text |-> <<"a">>, channel |-> "email",
      entities |-> JsonDumps(<<Reference(<<"2">>), Reference(<<"1">>)>>)]}

\* answers of the LLM to the enrichment calls: the entities in the format
\* of the entity_extraction prompt, or as references
ReadAnswers ==
    {NoLlm} \cup [summary : {<<"s">>},
                  extracted : {<<Extracted(<<"a">>)>>, <<Reference(<<"3">>)>>}]

\* Ingests of every form by one agent, one request after the other, among
\* searches, lesson operations, the iterations of the background loop with
\* its export and its miner and, between the requests, the reads of a
\* logged-in admin, with stores, a vector store and an embedding provider
\* that do not fail and an LLM that may.  Requests arrive outside the runs
\* of the miner, and the clock moves by the wait of the loop.
NextMemory ==
    \/ background.pc = "sleep" /\ now < background.wake_at
            /\ Elapse(SleepSeconds)
    \/ DOMAIN memory_agents = {} /\ CreateAgent(UserBearer)
    \/ \E s \in Slots, kind \in Kinds, a \in DOMAIN memory_agents :
            /\ Quiet /\ background.pc # "mining"
            /\ Auth(s, kind, memory_agents[a].api_key_hash)
    \/ \E s \in Slots, form \in ReadForms : IngestGate(s, TRUE, form)
    \/ \E s \in Slots, llm \in ReadAnswers :
            IngestEnrich(s, <<>>, llm, MaxChunks, TRUE, TRUE, 0, FALSE)
    \/ \E s \in Slots : IngestTxn(s, TRUE, TRUE)
    \/ \E s \in Slots : IngestUpsert(s, TRUE)
    \/ \E s \in Slots : CreateLessonStart(s, {})
    \/ \E s \in Slots : CreateLessonTxn(s, TRUE)
    \/ \E s \in Slots : CreateLessonUpsert(s, TRUE, TRUE)
    \/ \E s \in Slots, lesson_id \in LessonIdInputs :
            UpdateLesson(s, lesson_id, "approved", TRUE)
    \/ \E s \in Slots : SearchEmbed(s, PlainSearch, TRUE)
    \/ \E s \in Slots, hits \in SUBSET qdrant :
            SearchInteractions(s, hits, TRUE)
    \/ \E s \in Slots, hits \in SUBSET qdrant : SearchLessons(s, hits, TRUE)
    \/ \E s \in Slots : \E kept \in SUBSET requests[s].results :
            SearchMerge(s, kept)
    \/ \E s \in Slots : AuditAndRespond(s, TRUE)
    \/ \E memory_id \in MemoryIdInputs :
            Quiet /\ GetMemoryDetail(UserBearer, memory_id)
    \/ \E query \in Queries, embedded \in BOOLEAN :
            Quiet /\ SearchMemoriesAdmin(UserBearer, query, embedded, TRUE)
    \/ background.task = 0 /\ StartBackgroundTasks
    \/ \E order \in ClusterOrders(memory_settings.auto_lesson_threshold) :
            Quiet /\ LoopWake("none", TRUE, order, TRUE, TRUE)
    \/ MineLlm("object", TRUE, TRUE)
    \/ MineEmbed(TRUE, TRUE, TRUE)
    \/ MineUpsert(TRUE, TRUE, TRUE)

\* the settings after an admin has lowered the threshold of the miner and
\* enabled the export
MinerExportSettings ==
    [DefaultSettings EXCEPT !.auto_lesson_threshold = 1,
                            !.openclaw_sync_enabled = TRUE,
                            !.openclaw_sync_path = "/export"]

InitMemory ==
    /\ now = 0
    /\ memory_settings = MinerExportSettings
    /\ shared_columns \in SharedLayouts
    /\ memory_agents = <<>>
    /\ api_keys = <<>>
    /\ memories = {}
    /\ memory_documents = {}
    /\ memories_shared = {}
    /\ memory_lessons = <<>>
    /\ memory_audit_log = <<>>
    /\ qdrant = {}
    /\ rate_limits = <<>>
    /\ admitted = <<>>
    /\ requests = [s \in Slots |-> IdleRequest]
    /\ reqSeq = 0
    /\ adminOps = 0
    /\ config_response = NoConfigRequest
    /\ admin_response = NoAdminRequest
    /\ background = NoTask
    /\ miner = IdleMiner
    /\ chunker = IdleChunker
    /\ nextId = 0

SpecMemory == InitMemory /\ [][NextMemory]_vars

\* the forms of clients that send one entity: a reference as the API
\* documents it, or one that also carries a name, plain or accented
MinerForms ==
    {[text |-> <<"a">>, channel |-> "call", entities |-> JsonDumps(<<e>>)] :
        e \in {Reference(<<"1">>), Reference(<<"2">>),
               NamedReference(<<"3">>, <<"b">>),
               NamedReference(<<"4">>, <<EAcute>>)}}

\* The background loop beside up to MaxRequests ingests of one reference
\* and one change of the miner or export settings: requests arrive one
\* after the other and outside the runs of the miner, and an iteration
\* begins when no request is being served.  Up to MaxTicks iterations under
\* every outcome of the settings reads, the export and the LLM, with the
\* loop started and stopped at any moment.  The clock moves by the wait of
\* the loop while it sleeps.
NextBackground ==
    \/ background.pc = "sleep" /\ now < background.wake_at
            /\ Elapse(SleepSeconds)
    \/ CreateAgent(UserBearer)
    \/ \E data \in {d \in MinerBodies : d.auto_lesson_threshold = 1}
                   \cup SyncBodies :
            Quiet /\ UpdateSettings(UserBearer, data)
    \/ \E s \in Slots, a \in DOMAIN memory_agents :
            /\ Quiet /\ background.pc # "mining"
            /\ Auth(s, "ingest_interaction", memory_agents[a].api_key_hash)
    \/ \E s \in Slots :
            IngestGate(s, TRUE, [PlainForm EXCEPT
                !.entities = JsonDumps(<<Reference(<<"1">>)>>)])
    \/ \E s \in Slots :
            IngestEnrich(s, <<>>, NoLlm, MaxChunks, FALSE, TRUE, 0, FALSE)
    \/ \E s \in Slots : IngestTxn(s, TRUE, TRUE)
    \/ \E s \in Slots : AuditAndRespond(s, TRUE)
    \/ background.task = 0 /\ StartBackgroundTasks
    \/ StopBackgroundTasks
    \/ \E db \in SettingsFailures, fs_ok \in BOOLEAN,
          order \in ClusterOrders(memory_settings.auto_lesson_threshold) :
            Quiet /\ LoopWake(db, fs_ok, order, TRUE, TRUE)
    \/ \E answer \in LessonAnswers : MineLlm(answer, TRUE, TRUE)
    \/ \E embedded \in BOOLEAN : MineEmbed(embedded, TRUE, TRUE)
    \/ \E upsert_ok \in BOOLEAN : MineUpsert(upsert_ok, TRUE, TRUE)

SpecBackground == Init /\ [][NextBackground]_vars

\* The lesson handlers of one agent and of a logged-in admin beside the
\* miner of the background loop, after an ingest of one reference, with
\* every body of the lesson requests and under every outcome of the
\* relational store, the vector store, the embedding provider and the LLM;
\* the loop is stopped at any moment of a run of the miner.  Requests
\* arrive one after the other and outside the runs of the miner, the admin
\* asks and the loop starts when no request is being served, and the clock
\* moves by the wait of the loop.
NextLessons ==
    \/ background.pc = "sleep" /\ now < background.wake_at
            /\ Elapse(SleepSeconds)
    \/ DOMAIN memory_agents = {} /\ CreateAgent(UserBearer)
    \/ \E s \in Slots, kind \in MutatingKinds, a \in DOMAIN memory_agents :
            /\ Quiet /\ background.pc # "mining"
            /\ Auth(s, kind, memory_agents[a].api_key_hash)
    \/ \E s \in Slots :
            IngestGate(s, TRUE, [PlainForm EXCEPT
                !.entities = JsonDumps(<<Reference(<<"1">>)>>)])
    \/ \E s \in Slots :
            IngestEnrich(s, <<>>, NoLlm, MaxChunks, FALSE, TRUE, 0, FALSE)
    \/ \E s \in Slots : IngestTxn(s, TRUE, TRUE)
    \/ \E s \in Slots, source_memory_ids \in SourceInputs :
            CreateLessonStart(s, source_memory_ids)
    \/ \E s \in Slots, ok \in BOOLEAN : CreateLessonTxn(s, ok)
    \/ \E s \in Slots, ok \in BOOLEAN : CreateLessonUpsert(s, TRUE, ok)
    \/ \E s \in Slots, lesson_id \in LessonIdInputs,
          status \in StatusInputs :
            UpdateLesson(s, lesson_id, status, TRUE)
    \/ \E s \in Slots : AuditAndRespond(s, TRUE)
    \/ Quiet /\ ~DeletePending /\ CreateLessonAdmin(UserBearer)
    \/ \E lesson_id \in LessonIdInputs :
            /\ Quiet /\ ~DeletePending
            /\ UpdateLessonAdmin(UserBearer, lesson_id)
    \/ \E lesson_id \in LessonIdInputs, commit_ok \in BOOLEAN :
            Quiet /\ DeleteLessonAdminTxn(UserBearer, lesson_id, commit_ok)
    \/ \E delete_ok \in BOOLEAN : DeleteLessonAdminVector(delete_ok)
    \/ Quiet /\ background.task = 0 /\ StartBackgroundTasks
    \/ background.pc = "mining" /\ StopBackgroundTasks
    \/ \E order \in ClusterOrders(memory_settings.auto_lesson_threshold),
          commit_ok \in BOOLEAN :
            Quiet /\ LoopWake("none", TRUE, order, TRUE, commit_ok)
    \/ \E answer \in LessonAnswers, commit_ok \in BOOLEAN :
            MineLlm(answer, TRUE, commit_ok)
    \/ \E embedded \in BOOLEAN, commit_ok \in BOOLEAN :
            MineEmbed(embedded, TRUE, commit_ok)
    \/ \E upsert_ok \in BOOLEAN, commit_ok \in BOOLEAN :
            MineUpsert(upsert_ok, TRUE, commit_ok)

SpecLessons == InitMemory /\ [][NextLessons]_vars

\* The loop started and stopped at any moment, a start while a task exists
\* included, after one ingest of one reference has given the miner a
\* cluster: up to MaxTasks tasks and MaxTicks iterations, with every answer
\* of the LLM, the embedding provider and the vector store.
NextTasks ==
    \/ background.pc = "sleep" /\ now < background.wake_at
            /\ Elapse(SleepSeconds)
    \/ DOMAIN memory_agents = {} /\ CreateAgent(UserBearer)
    \/ \E s \in Slots, a \in DOMAIN memory_agents :
            /\ Quiet /\ background.tasks = <<>> /\ memories = {}
            /\ Auth(s, "ingest_interaction", memory_agents[a].api_key_hash)
    \/ \E s \in Slots :
            IngestGate(s, TRUE, [PlainForm EXCEPT
                !.entities = JsonDumps(<<Reference(<<"1">>)>>)])
    \/ \E s \in Slots :
            IngestEnrich(s, <<>>, NoLlm, MaxChunks, FALSE, TRUE, 0, FALSE)
    \/ \E s \in Slots : IngestTxn(s, TRUE, TRUE)
    \/ \E s \in Slots : AuditAndRespond(s, TRUE)
    \/ StartBackgroundTasks
    \/ StopBackgroundTasks
    \/ \E order \in ClusterOrders(memory_settings.auto_lesson_threshold) :
            Quiet /\ LoopWake("none", TRUE, order, TRUE, TRUE)
    \/ \E answer \in LessonAnswers : MineLlm(answer, TRUE, TRUE)
    \/ \E embedded \in BOOLEAN : MineEmbed(embedded, TRUE, TRUE)
    \/ \E upsert_ok \in BOOLEAN : MineUpsert(upsert_ok, TRUE, TRUE)

SpecTasks == InitMemory /\ [][NextTasks]_vars

\* Up to MaxChecks admissions by check_rate_limit, and any number of
\* rejections, for the agent ids in any order, while the clock moves and a
\* logged-in admin changes the rate limit.
NextRate ==
    \/ Tick
    \/ \E data \in RateBodies : UpdateSettings(UserBearer, data)
    \/ \E agent_id \in AgentIds : CheckRateLimit(agent_id)

SpecRate == Init /\ [][NextRate]_vars

\* The miner under the loop, after up to MaxRequests ingests of one agent
\* with one entity each and a change of the threshold: requests arrive one
\* after the other and outside the runs of the miner.  Up to MaxTicks runs under every
\* order of the clusters and every outcome of the prompt lookup, the LLM,
\* the embedding provider, the vector store and the commit.  The clock
\* moves by the wait of the loop while it sleeps, and once by eight days.
NextMiner ==
    \/ background.pc = "sleep" /\ now < background.wake_at
            /\ Elapse(SleepSeconds)
    \/ Quiet /\ background.pc = "sleep" /\ now < WeekDays * DaySeconds
            /\ Elapse((WeekDays + 1) * DaySeconds)
    \/ DOMAIN memory_agents = {} /\ CreateAgent(UserBearer)
    \/ \E data \in {d \in MinerBodies : d.auto_lesson_enabled} :
            Quiet /\ UpdateSettings(UserBearer, data)
    \/ \E s \in Slots, a \in DOMAIN memory_agents :
            /\ Quiet /\ background.pc # "mining"
            /\ Auth(s, "ingest_interaction", memory_agents[a].api_key_hash)
    \/ \E s \in Slots, form \in MinerForms : IngestGate(s, TRUE, form)
    \/ \E s \in Slots :
            IngestEnrich(s, <<>>, NoLlm, MaxChunks, FALSE, TRUE, 0, FALSE)
    \/ \E s \in Slots : IngestTxn(s, TRUE, TRUE)
    \/ \E s \in Slots : AuditAndRespond(s, TRUE)
    \/ background.task = 0 /\ StartBackgroundTasks
    \/ \E order \in ClusterOrders(memory_settings.auto_lesson_threshold),
          prompt_ok \in BOOLEAN, commit_ok \in BOOLEAN :
            Quiet /\ LoopWake("none", TRUE, order, prompt_ok, commit_ok)
    \/ \E answer \in LessonAnswers, commit_ok \in BOOLEAN :
            MineLlm(answer, TRUE, commit_ok)
    \/ \E embedded \in BOOLEAN, commit_ok \in BOOLEAN :
            MineEmbed(embedded, TRUE, commit_ok)
    \/ \E upsert_ok \in BOOLEAN, commit_ok \in BOOLEAN :
            MineUpsert(upsert_ok, TRUE, commit_ok)

SpecMiner == Init /\ [][NextMiner]_vars

\* Searches of every body after an ingest or a lesson, one request after
\* the other, under every outcome of the embedding provider, the vector
\* store and the audit log.
NextSearch ==
    \/ CreateAgent(UserBearer)
    \/ \E s \in Slots, kind \in {"ingest_interaction", "create_lesson",
                                  "search"}, a \in DOMAIN memory_agents :
            /\ Quiet
            /\ Auth(s, kind, memory_agents[a].api_key_hash)
    \/ \E s \in Slots : IngestGate(s, TRUE, PlainForm)
    \/ \E s \in Slots, chunks \in 1..MaxPipelineChunks :
            IngestEnrich(s, <<>>, NoLlm, chunks, TRUE, TRUE, 0, FALSE)
    \/ \E s \in Slots : IngestTxn(s, TRUE, TRUE)
    \/ \E s \in Slots : IngestUpsert(s, TRUE)
    \/ \E s \in Slots : CreateLessonStart(s, {})
    \/ \E s \in Slots : CreateLessonTxn(s, TRUE)
    \/ \E s \in Slots : CreateLessonUpsert(s, TRUE, TRUE)
    \/ \E s \in Slots, body \in SearchBodies, embedded \in BOOLEAN :
            SearchEmbed(s, body, embedded)
    \/ \E s \in Slots, hits \in SUBSET qdrant, ok \in BOOLEAN :
            SearchInteractions(s, hits, ok)
    \/ \E s \in Slots, hits \in SUBSET qdrant, ok \in BOOLEAN :
            SearchLessons(s, hits, ok)
    \/ \E s \in Slots : \E kept \in SUBSET requests[s].results :
            SearchMerge(s, kept)
    \/ \E s \in Slots, ok \in BOOLEAN : AuditAndRespond(s, ok)

SpecSearch == Init /\ [][NextSearch]_vars

(* =============================== claims ================================ *)
Done(s) == requests[s].pc = "done"

\* a request arrives in slot s in this step
Arrives(s) == reqSeq' = reqSeq + 1 /\ requests'[s].seq = reqSeq + 1

\* the digests stored for the agents that are registered
StoredKeys == {memory_agents[a].api_key_hash : a \in DOMAIN memory_agents}

\* what a request of sequence number seq has left in the stores
RowsOf(seq) ==
    {<<"memories", m>> : m \in {x \in memories : x.req = seq}}
    \cup {<<"memory_documents", d>> : d \in {x \in memory_documents : x.req = seq}}
    \cup {<<"memories_shared", m>> : m \in {x \in memories_shared : x.req = seq}}

PointsOf(seq) == {p \in qdrant : p.req = seq}

AuditsOf(seq) == {i \in DOMAIN memory_audit_log : memory_audit_log[i].req = seq}

\* the ingests of agent a that check_rate_limit let through in [w, w + 60 s)
AdmittedIn(a, w) ==
    {i \in DOMAIN admitted :
        /\ admitted[i].agent = a
        /\ w <= admitted[i].at
        /\ admitted[i].at < w + RateWindowSeconds}

\* C1: while the rate limit is enabled with one rate_limit_per_minute, no
\* agent has more than rate_limit_per_minute ingests let through by
\* check_rate_limit in any 60-second window [w, w + 60 s).
C1_RateLimitPerWindow ==
    \A a \in AgentIds, w \in 0..MaxTime :
        \A i \in AdmittedIn(a, w) :
            (\A j \in AdmittedIn(a, w) :
                admitted[j].enabled /\ admitted[j].limit = admitted[i].limit)
            => Cardinality(AdmittedIn(a, w)) <= admitted[i].limit

\* an agent whose window is full has had an ingest turned away
C1_Witness ==
    \E s \in Slots, i \in DOMAIN admitted :
        /\ requests[s].status = 429
        /\ admitted[i].agent = requests[s].agent
        /\ admitted[i].enabled
        /\ Cardinality(AdmittedIn(requests[s].agent, admitted[i].at))
              = admitted[i].limit

\* C2: an ingest answered 429 by the rate limiter has left no Memory,
\* Document or SharedMemory row, no vector point and no AuditRecord.
C2_RateLimitedNoSideEffects ==
    \A s \in Slots :
        requests[s].status = 429 =>
            /\ RowsOf(requests[s].seq) = {}
            /\ PointsOf(requests[s].seq) = {}
            /\ AuditsOf(requests[s].seq) = {}

\* one ingest was answered 429 while another one of the same agent was stored
C2_Witness ==
    \E s \in Slots, m \in memories :
        /\ requests[s].status = 429
        /\ m.req # requests[s].seq
        /\ \E i \in DOMAIN admitted : admitted[i].agent = requests[s].agent

\* the Memory row a point of an interaction collection belongs to
MemoryOfPoint(p) == IF p.is_shared THEN p.original ELSE p.ref

C5_IngestAllOrNothing ==
    \A s \in Slots :
        (Done(s) /\ requests[s].kind = "ingest_interaction") =>
            \/ /\ requests[s].status = 200
               /\ \E m \in memories : m.id = requests[s].rid
            \/ /\ requests[s].status # 200
               /\ RowsOf(requests[s].seq) = {}

\* C6: when log_audit fails after a mutating agent operation has committed
\* its change, the operation still returns its success response.
C6_AuditFailureNotSurfaced ==
    \A s \in Slots :
        (/\ Done(s) /\ requests[s].kind \in MutatingKinds
         /\ requests[s].committed /\ requests[s].audit_failed)
        => requests[s].status = 200

\* C7: every successful mutating agent request has appended exactly one
\* AuditRecord, which carries the agent's id, the action tag of the operation
\* and the id of the resource it changed.
C7_ExactlyOneAudit ==
    \A s \in Slots :
        (/\ Done(s) /\ requests[s].status = 200
         /\ requests[s].kind \in MutatingKinds)
        => /\ Cardinality(AuditsOf(requests[s].seq)) = 1
           /\ \A i \in AuditsOf(requests[s].seq) :
                /\ memory_audit_log[i].agent_id = requests[s].agent
                /\ memory_audit_log[i].action = requests[s].kind
                /\ memory_audit_log[i].resource_id = requests[s].rid
                /\ requests[s].rid # 0
                /\ IF requests[s].kind = "ingest_interaction"
                   THEN \E m \in memories : m.id = requests[s].rid
                   ELSE requests[s].rid \in DOMAIN memory_lessons

\* a lesson was created and then updated, both with success
C7_Witness ==
    \E s, t \in Slots :
        /\ requests[s].status = 200 /\ requests[s].kind = "create_lesson"
        /\ requests[t].status = 200 /\ requests[t].kind = "update_lesson"
        /\ requests[t].rid = requests[s].rid
        /\ Cardinality(AuditsOf(requests[t].seq)) = 1

\* C8: a request that presents the API key create_agent returned for an agent
\* is authenticated as that agent by verify_agent_key while the agent is
\* active.
C8_IssuedKeyAuthenticates ==
    [][\A s \in Slots, a \in DOMAIN memory_agents :
          (/\ Arrives(s)
           /\ requests'[s].key = api_keys[a]
           /\ memory_agents[a].is_active)
          => requests'[s].agent = a /\ requests'[s].status # 401]_vars

\* the agent stores and the rate-limit state
gateState == <<memory_settings, memory_agents, api_keys, rate_limits, admitted>>

\* C9: once an agent is deactivated or deleted, every request that presents
\* its API key (or the digest stored for it) is answered 401 and changes
\* nothing, until the agent is active again.
C9_InactiveAgentRejected ==
    [][\A s \in Slots, a \in DOMAIN api_keys :
          (/\ Arrives(s)
           /\ requests'[s].key \in {api_keys[a], Sha256(api_keys[a])}
           /\ (a \notin DOMAIN memory_agents \/ ~memory_agents[a].is_active))
          => /\ requests'[s].status = 401 /\ requests'[s].pc = "done"
             /\ UNCHANGED stores
             /\ UNCHANGED gateState]_vars

\* a request carrying the stored credential of a deactivated or deleted agent
\* was answered 401
C9_Witness ==
    \E s \in Slots, a \in DOMAIN api_keys :
        /\ requests[s].status = 401
        /\ requests[s].key = Sha256(api_keys[a])
        /\ (a \notin DOMAIN memory_agents \/ ~memory_agents[a].is_active)

\* C10: a request to an agent endpoint with a missing or unknown API key is
\* answered 401 and leaves the stores, the agents (last_used included) and the
\* rate-limit windows as they were; last_used of an agent changes only when a
\* request matches that agent's stored key.
C10_BadKeyNoSideEffects ==
    [][/\ \A s \in Slots :
            (Arrives(s) /\ requests'[s].key \notin StoredKeys)
            => /\ requests'[s].status = 401 /\ requests'[s].pc = "done"
               /\ UNCHANGED stores
               /\ UNCHANGED gateState
       /\ \A a \in DOMAIN memory_agents \cap DOMAIN memory_agents' :
            memory_agents'[a].last_used # memory_agents[a].last_used
            => \E s \in Slots :
                  /\ Arrives(s)
                  /\ requests'[s].key = memory_agents[a].api_key_hash
                  /\ requests'[s].agent = a]_vars

\* a request without key and a request with a key of no agent were both
\* answered 401 while an active agent is registered
C10_Witness ==
    \E s, t \in Slots, a \in DOMAIN memory_agents :
        /\ memory_agents[a].is_active
        /\ requests[s].status = 401 /\ requests[s].key = NoKey
        /\ requests[t].status = 401 /\ requests[t].key \in Tokens
        /\ requests[t].key \notin StoredKeys

\* the configuration the modelled /config endpoints read and write
configuration == <<memory_settings, memory_agents, api_keys>>

\* a /config request arrives in this step
ConfigArrives == adminOps' = adminOps + 1

\* the Authorization headers C11 names: none, a scheme other than Bearer, an
\* invalid or expired token, a token whose user does not exist
NotAuthenticated(h) ==
    \/ h = <<>>
    \/ Len(h) >= 1 /\ h[1] \notin {"Bearer", "bearer"}
    \/ Len(h) = 1
    \/ Len(h) = 2 /\ h[1] \in {"Bearer", "bearer"}
         /\ (~h[2].signed \/ h[2].expired \/ h[2].sub \notin Users)

PrivatePoints == {p \in qdrant : p.collection = "memory_interactions"}

\* C12: for every vector point of the private interactions collection there
\* is a Memory row whose id is the point's memory_id.
C12_PrivatePointHasMemory ==
    \A p \in PrivatePoints : \E m \in memories : m.id = p.ref

\* a private point was written for one ingest while the commit of another
\* ingest has failed
C12_Witness ==
    \E p \in PrivatePoints, s \in Slots :
        /\ Done(s) /\ requests[s].kind = "ingest_interaction"
        /\ "commit" \in requests[s].faults
        /\ requests[s].seq # p.req

\* C13: the original_memory_id of every SharedMemory row is the id of a
\* Memory row, inserted by the same transaction as the SharedMemory row.
C13_SharedHasOrigin ==
    \A sh \in memories_shared :
        \E m \in memories :
            m.id = sh.original_memory_id /\ m.req = sh.req

\* a SharedMemory row is stored next to the Memory row of another ingest
C13_Witness ==
    \E sh \in memories_shared, m \in memories : m.req # sh.req

\* C14: an ingest that read settings with pii_scrubbing_enabled or
\* auto_share_scrubbed off has no SharedMemory row and no point with
\* is_shared set, whatever the settings are now.
C14_SharedOnlyWithBothFlags ==
    \A s \in Slots :
        (/\ requests[s].kind = "ingest_interaction"
         /\ ~(requests[s].pii /\ requests[s].share))
        => /\ \A sh \in memories_shared : sh.req # requests[s].seq
           /\ \A p \in PointsOf(requests[s].seq) : ~p.is_shared

\* an ingest that read auto_share_scrubbed off has succeeded without a
\* SharedMemory row after both flags were turned on, and an ingest that read
\* both flags on has its SharedMemory row
C14_Witness ==
    \E s \in Slots, sh \in memories_shared :
        /\ Done(s) /\ requests[s].kind = "ingest_interaction"
        /\ requests[s].status = 200
        /\ ~requests[s].share
        /\ memory_settings.pii_scrubbing_enabled
        /\ memory_settings.auto_share_scrubbed
        /\ sh.req # requests[s].seq

\* request s gets its response in this step
Finishes(s) ==
    requests[s].pc \notin {"idle", "done"} /\ requests'[s].pc = "done"

\* failures that come from outside the handler: a malformed form field, the
\* embedding provider, the redaction service, the relational store, the
\* vector store, the audit log
OutsideFailures ==
    {"json", "embedding", "scrub_embedding", "redaction", "insert", "commit",
     "upsert", "shared_upsert", "audit"}

\* C15: with pii_scrubbing_enabled and auto_share_scrubbed both read as true,
\* a redaction service that answers and nothing failing outside the handler,
\* an ingest of a single-chunk text succeeds and leaves exactly one Memory row
\* and exactly one SharedMemory row, whose scrubbed text is the output of the
\* redaction service.
C15_SharedProjection ==
    [][\A s \in Slots :
          (/\ Finishes(s)
           /\ requests[s].kind = "ingest_interaction"
           /\ requests[s].pii /\ requests[s].share
           /\ requests[s].chunks = 1 /\ requests[s].scrubbed = 1
           /\ requests[s].scrub_text = "redacted"
           /\ requests'[s].faults \cap OutsideFailures = {})
          => /\ requests'[s].status = 200
             /\ Cardinality({m \in memories' : m.req = requests[s].seq}) = 1
             /\ Cardinality({sh \in memories_shared' :
                                sh.req = requests[s].seq}) = 1
             /\ \A sh \in memories_shared' :
                   sh.req = requests[s].seq
                   => /\ sh.scrubbed_text = "redacted"
                      /\ sh.original_memory_id = requests[s].rid]_vars

\* the points ingest_interaction has written
InteractionPoints == {p \in qdrant : p.collection # "memory_lessons"}

C17_DenseChunkPoints ==
    [][\A s \in Slots :
          (/\ Finishes(s)
           /\ requests[s].kind = "ingest_interaction"
           /\ requests'[s].status = 200
           /\ requests'[s].faults \cap OutsideFailures = {})
          => LET pts == {p \in qdrant' :
                            /\ p.collection = "memory_interactions"
                            /\ p.ref = requests[s].rid}
             IN /\ Cardinality(pts) = requests[s].chunks
                /\ {p.chunk_index : p \in pts} = 0..(requests[s].chunks - 1)
                /\ \A p \in pts : ~p.is_shared]_vars

\* an ingest of MaxPipelineChunks chunks has succeeded with all its points
C17_Witness ==
    \E s \in Slots :
        /\ Done(s) /\ requests[s].kind = "ingest_interaction"
        /\ requests[s].status = 200 /\ requests[s].faults = {}
        /\ Cardinality({p \in PrivatePoints : p.ref = requests[s].rid})
              = MaxPipelineChunks

\* C18: when every call to the embedding provider fails during an ingest and
\* nothing else fails, the ingest answers with success, its Memory row is
\* persisted and no vector point is written for it.
C18_EmbeddingFailureTolerated ==
    [][\A s \in Slots :
          (/\ Finishes(s)
           /\ requests[s].kind = "ingest_interaction"
           /\ requests[s].chunks > 0 /\ ~requests[s].embedded
           /\ ~requests[s].scrub_embedded
           /\ requests'[s].faults \subseteq {"embedding", "scrub_embedding"})
          => /\ requests'[s].status = 200
             /\ requests'[s].rid # 0
             /\ \E m \in memories' : m.id = requests'[s].rid
             /\ \A p \in qdrant' : p.req # requests[s].seq]_vars

\* an ingest whose embeddings failed has succeeded and its Memory row is
\* stored
C18_Witness ==
    \E s \in Slots, m \in memories :
        /\ Done(s) /\ requests[s].kind = "ingest_interaction"
        /\ requests[s].status = 200
        /\ "embedding" \in requests[s].faults
        /\ m.id = requests[s].rid
        /\ PointsOf(requests[s].seq) = {}

\* C19: a failed upsert into the private collection, which comes after the
\* commit, ends nothing: the loop goes on to the next chunk or to the audit,
\* the Memory row stays, and unless the audit write fails the ingest answers
\* with success after writing its AuditRecord.
C19_UpsertFailureTolerated ==
    [][\A s \in Slots :
          /\ (/\ requests[s].pc = "upsert"
               /\ requests[s].kind = "ingest_interaction"
               /\ requests'[s] # requests[s]
               /\ qdrant' = qdrant)
              => /\ requests'[s].pc =
                       IF requests[s].i + 1 < requests[s].chunks
                       THEN "upsert" ELSE "audit"
                 /\ requests'[s].i = requests[s].i + 1
                 /\ \E m \in memories' : m.id = requests[s].rid
          /\ (/\ Finishes(s)
               /\ requests[s].kind = "ingest_interaction"
               /\ "upsert" \in requests'[s].faults
               /\ "audit" \notin requests'[s].faults)
              => /\ requests'[s].status = 200
                 /\ \E m \in memories' : m.id = requests[s].rid
                 /\ Cardinality({i \in DOMAIN memory_audit_log' :
                        memory_audit_log'[i].req = requests[s].seq}) = 1]_vars

\* an ingest has succeeded although one of its upserts failed, and a later
\* upsert of it was still made
C19_Witness ==
    \E s \in Slots, p \in PrivatePoints :
        /\ Done(s) /\ requests[s].kind = "ingest_interaction"
        /\ requests[s].status = 200
        /\ "upsert" \in requests[s].faults
        /\ p.req = requests[s].seq /\ p.chunk_index > 0
        /\ \A q \in PrivatePoints : q.req = p.req => q.chunk_index # 0

MinedLessons == {i \in DOMAIN memory_lessons : memory_lessons[i].run > 0}

\* a memory the explorer returned
Detail == admin_response.body[1]

\* the ingests that returned a memory id and are still on record
Ingested ==
    {s \in Slots : /\ requests[s].kind = "ingest_interaction"
                   /\ requests[s].pc = "done"
                   /\ requests[s].status = 200}

\* get_memory_detail has just returned the memory of the ingest of slot s
ReadsBack(s) ==
    /\ admin_response.op = "get_memory_detail"
    /\ admin_response.status = 200
    /\ admin_response.memory_id = requests[s].rid

\* C21: a Memory row is immutable after ingest. No step changes or removes
\* the raw text, the channel or the timestamp of a row of memories, the row
\* of an ingest that returned an id has the text and the channel the client
\* sent and the timestamp the response carried, and a read of that id
\* returns these three values.
C21_MemoryImmutable ==
    [][/\ \A m \in memories : \E n \in memories' :
              /\ n.id = m.id /\ n.raw_text = m.raw_text
              /\ n.channel = m.channel /\ n.timestamp = m.timestamp
       /\ \A s \in Ingested' :
              /\ \E m \in memories' : m.id = requests'[s].rid
              /\ \A m \in memories' : m.id = requests'[s].rid =>
                    /\ m.raw_text = requests'[s].text
                    /\ m.channel = requests'[s].channel
                    /\ m.timestamp = requests'[s].ts
              /\ ReadsBack(s)' =>
                    /\ Detail'.raw_text = requests'[s].text
                    /\ Detail'.channel = requests'[s].channel
                    /\ Detail'.timestamp = requests'[s].ts]_vars

\* a memory is read back after a later request, and after an iteration of
\* the loop whose export ran and whose miner made a lesson from it
C21_Witness ==
    \E s \in Ingested :
        /\ ReadsBack(s)
        /\ requests[s].seq < reqSeq
        /\ now > requests[s].ts
        /\ Detail.raw_text = <<"a", "b">>
        /\ background.exported # "none"
        /\ requests[s].rid \in miner.seen
        /\ \E i \in MinedLessons : requests[s].rid \in memory_lessons[i].seen

\* C22: for every entity list E supplied to ingest, a read of the returned
\* id gives an entities list equal to E, in the same order.
C22_EntitiesRoundTrip ==
    \A s \in Ingested :
        ReadsBack(s) => Detail.entities = JsonLoads(requests[s].supplied)

\* an admin search is being answered
AdminSearches ==
    /\ adminOps' # adminOps
    /\ admin_response'.op = "search"
    /\ admin_response'.status # 401

\* C24: when embedding the query fails, an admin search falls back to the
\* relational store and returns every Memory whose raw_text or summary_text
\* contains the query.
C24_AdminFallbackFinds ==
    [][(AdminSearches /\ ~admin_response'.embedded) =>
          /\ admin_response'.status = 200
          /\ \A m \in memories :
                (\/ Like(m.raw_text, admin_response'.query)
                 \/ Like(m.summary_text, admin_response'.query)) =>
                    \E r \in admin_response'.results : r.memory_id = m.id]_vars

\* the failures of the services a search calls
UpstreamFailures == {"query_embedding", "search_interactions", "search_lessons"}

\* the results of a request that came from a search for the given type
ResultsOfType(req, type) == {r \in req.results : r.type = type}

C25_SearchAudited ==
    \A s \in Slots :
        (/\ Done(s) /\ requests[s].kind = "search" /\ requests[s].agent # 0
         /\ requests[s].faults \subseteq UpstreamFailures)
        => /\ Cardinality(AuditsOf(requests[s].seq)) = 1
           /\ \A i \in AuditsOf(requests[s].seq) :
                /\ memory_audit_log[i].action = "search"
                /\ memory_audit_log[i].details =
                      <<requests[s].query, Cardinality(requests[s].results)>>

\* the collections of the private points
PrivateCollections == {"memory_interactions", "memory_lessons"}

\* C26: a search with shared_only = true queries only the _shared
\* collections: none of its results is made from a point of
\* memory_interactions or memory_lessons.
C26_SharedOnlyNoPrivate ==
    \A s \in Slots :
        (requests[s].kind = "search" /\ requests[s].shared_only)
        => \A r \in requests[s].results :
              /\ r.point.collection \notin PrivateCollections
              /\ r.point.collection \in {"memory_interactions_shared",
                                          "memory_lessons_shared"}

\* a shared_only search for both types ran to its end, nothing failing,
\* over a store that holds private points
C26_Witness ==
    \E s \in Slots :
        /\ Done(s) /\ requests[s].kind = "search" /\ requests[s].shared_only
        /\ requests[s].types = "both"
        /\ requests[s].status = 200 /\ requests[s].faults = {}
        /\ \E p \in qdrant : p.collection \in PrivateCollections

\* C27: in one iteration of the background loop the export and the mining
\* are isolated: when the iteration is over, each activity that was enabled
\* has run in it, whatever was raised inside the other, and the loop has not
\* ended but sleeps until the next iteration.
C27_ActivitiesIsolated ==
    /\ background.failed # {} => background.pc # "returned"
    /\ (background.pc = "sleep" /\ background.tick > 0) =>
          /\ background.export_due => background.exported # "none"
          /\ background.mine_due => background.mined # "none"

\* C28: a stop of the background loop takes effect only between iterations;
\* the cancel never meets the task inside an iteration, at one of the awaits
\* of the miner.
C28_StopBetweenIterations ==
    background.interrupted \notin {"llm", "embed", "upsert"}

\* C29: lesson mining is idempotent: of two calls of the miner in succession
\* with no ingest between them, only the first creates a lesson for an
\* entity cluster, and it creates one; the second creates none for it.
C29_MiningIdempotent ==
    \A i, j \in MinedLessons :
        LET first == memory_lessons[i]
            second == memory_lessons[j]
        IN (/\ i # j
            /\ first.related_entities_json = second.related_entities_json
            /\ first.seen = second.seen)
           => second.run \notin {first.run, first.run + 1}

\* the memories a call of the miner found when it began, of the last seven
\* days before it, that share the entity list of cluster c
ClusterMemories(m, c) ==
    {x \in memories : /\ x.id \in m.seen
                      /\ x.entities_json = c
                      /\ x.created_at > m.started_at - WeekDays * DaySeconds}

\* a lesson of cluster c, not of call m, from the last seven days before it
OwnRecentLesson(lessons, m, c) ==
    \E i \in DOMAIN lessons :
        /\ lessons[i].run # m.run
        /\ lessons[i].related_entities_json = c
        /\ lessons[i].created_at > m.started_at - WeekDays * DaySeconds

\* C30: when a call of the miner returns with success, with a prompt and
\* with a JSON object from the LLM for every cluster it asked about, every
\* entity cluster that had at least auto_lesson_threshold interactions in
\* the last 7 days and no lesson of its own from the last 7 days has
\* exactly one new lesson, a draft, and a cluster below the threshold none.
C30_MinerCoversClusters ==
    [][(/\ miner' # miner
        /\ miner'.pc = "idle"
        /\ miner'.status = "success"
        /\ miner'.faults = {})
       => \A c \in {x.entities_json : x \in memories} :
            LET new == {i \in DOMAIN memory_lessons' :
                          /\ memory_lessons'[i].run = miner'.run
                          /\ memory_lessons'[i].related_entities_json = c}
                count == Cardinality(ClusterMemories(miner', c))
            IN /\ (/\ JsonLoads(c) # <<>>
                   /\ count >= miner'.threshold
                   /\ ~OwnRecentLesson(memory_lessons', miner', c))
                  => /\ Cardinality(new) = 1
                     /\ \A i \in new : memory_lessons'[i].status = "draft"
               /\ count < miner'.threshold => new = {}]_vars

\* the window check_rate_limit holds for an agent, empty when it has none
Window(a) == IF a \in DOMAIN rate_limits THEN rate_limits[a] ELSE <<>>

\* C35: the rate-limit windows of distinct agents are independent: a step
\* changes the window of at most one agent, as check_rate_limit for that
\* agent does, and while the clock and the settings stand still the
\* admission of every other agent is what it was before the step.
C35_WindowsIndependent ==
    [][/\ Cardinality({b \in AgentIds : Window(b)' # Window(b)}) <= 1
       /\ \A b \in AgentIds :
            Window(b)' # Window(b) => rate_limits' = RateLimitsAfter(b)
       /\ (now' = now /\ memory_settings' = memory_settings) =>
            \A b \in AgentIds :
                Window(b)' = Window(b) => (RateAllowed(b)' <=> RateAllowed(b))
      ]_vars

\* agent 2 has been let through while agent 1 is turned away with a full
\* window
C35_Witness ==
    /\ memory_settings.rate_limit_enabled
    /\ ~RateAllowed(1)
    /\ RateAllowed(2)
    /\ Window(2) # <<>>
    /\ admitted # <<>>
    /\ admitted[Len(admitted)].agent = 2
    /\ \E i \in 1..Len(Window(1)) : Window(1)[i] < admitted[Len(admitted)].at

\* the admissions of agent a that are younger than 60 seconds
YoungAdmissions(a) ==
    {i \in DOMAIN admitted : /\ admitted[i].agent = a
                             /\ now - admitted[i].at < RateWindowSeconds}

\* C37: a rejected request adds no timestamp to the window of the agent: a
\* step that lets nothing through adds no entry to any window; every
\* timestamp of a window that a check has just rewritten is younger than
\* 60 seconds; and while the limit is enabled an agent whose admissions
\* of the last 60 seconds were all counted is let through exactly when
\* fewer than rate_limit_per_minute of them are left.
C37_RejectionsNotCounted ==
    [][/\ admitted' = admitted =>
            \A b \in AgentIds :
                /\ Len(Window(b)') <= Len(Window(b))
                /\ \A i \in 1..Len(Window(b)') :
                      \E j \in 1..Len(Window(b)) :
                          Window(b)'[i] = Window(b)[j]
       /\ \A b \in AgentIds :
            Window(b)' # Window(b) =>
                \A i \in 1..Len(Window(b)') :
                    now' - Window(b)'[i] < RateWindowSeconds
       /\ \A b \in AgentIds :
            (/\ memory_settings'.rate_limit_enabled
             /\ \A i \in YoungAdmissions(b)' : admitted'[i].enabled)
            => (RateAllowed(b)' <=>
                  Cardinality(YoungAdmissions(b)')
                     < memory_settings'.rate_limit_per_minute)
      ]_vars

\* an agent with a limit of one was let through, turned away half a minute
\* later and is let through again when its admission is a minute old
C37_Witness ==
    /\ memory_settings.rate_limit_enabled
    /\ memory_settings.rate_limit_per_minute = 1
    /\ Len(admitted) = 2
    /\ admitted[1].agent = 1 /\ admitted[2].agent = 1
    /\ admitted[1].enabled /\ admitted[2].enabled
    /\ admitted[1].limit = 1 /\ admitted[2].limit = 1
    /\ admitted[2].at - admitted[1].at = RateWindowSeconds
    /\ Window(1) = <<admitted[2].at>>

\* C31: in every reachable state the status of every lesson is one of
\* draft, approved and archived.
C31_LessonStatusValid ==
    \A i \in DOMAIN memory_lessons :
        memory_lessons[i].status \in LessonStatuses

\* C32: at the moment a lesson is created, every id in its
\* source_memory_ids is the id of a row of memories.
C32_SourcesExistAtCreation ==
    [][\A i \in DOMAIN memory_lessons' \ DOMAIN memory_lessons :
          memory_lessons'[i].source_memory_ids
              \subseteq {m.id : m \in memories'}]_vars

\* C39: in every reachable state every point of the memory_lessons
\* collection has a lesson row with the same id.
C39_LessonPointHasRow ==
    \A p \in qdrant :
        p.collection = "memory_lessons" => p.ref \in DOMAIN memory_lessons

\* the characters of the input that two chunks both cover
Overlap(r1, r2) ==
    LET lo == IF r1.lo > r2.lo THEN r1.lo ELSE r2.lo
        hi == IF r1.hi < r2.hi THEN r1.hi ELSE r2.hi
    IN IF hi > lo THEN hi - lo ELSE 0

\* C33: for every text, chunk_size s and chunk_overlap o, two consecutive
\* chunks that chunk_text returns share at most o * 4 characters of the
\* input.
C33_OverlapBounded ==
    chunker.pc = "returned" =>
        \A i \in 1..(Len(chunker.result) - 1) :
            Overlap(chunker.result[i], chunker.result[i + 1])
                <= chunker.chunk_overlap * 4

C33_Witness ==
    /\ chunker.pc = "returned"
    /\ chunker.chunk_overlap > 0
    /\ \E i \in 1..(Len(chunker.result) - 1) :
          Overlap(chunker.result[i], chunker.result[i + 1])
              = chunker.chunk_overlap * 4

\* C34: chunk_text never returns an empty or whitespace-only chunk, whatever
\* the text (texts no longer than the target size included), chunk_size and
\* chunk_overlap.
C34_NoBlankChunk ==
    chunker.pc = "returned" =>
        \A i \in 1..Len(chunker.result) :
            \E c \in 1..Len(Content(chunker.text, chunker.result[i])) :
                Content(chunker.text, chunker.result[i])[c] \notin Whitespace

\* C36: chunk_text terminates for every text, chunk_size >= 1 and
\* chunk_overlap >= 0: every pass of the loop that is followed by another
\* moves the start of the window forward.
C36_StartIncreases ==
    [][(chunker.pc = "loop" /\ chunker'.pc = "loop")
          => chunker'.start > chunker.start]_vars

\* C38: the ingest of memory_routes.py, which server.py mounts, and the
\* ingest of memory/agent.py are observationally equivalent: whenever the
\* mounted handler has taken a request in, the handler of memory/agent.py
\* would have left the same request in the same state (accepted, or
\* rejected by the rate limit or for malformed JSON) and the rate limit
\* record would be the same.
C38_IngestEquivalent ==
    [][\A s \in Slots :
          (/\ requests[s].pc = "handler"
           /\ requests[s].kind = "ingest_interaction"
           /\ requests'[s].pc # "handler")
          => /\ requests'[s] =
                  Gated(requests[s], "json" \notin requests'[s].faults,
                        [text |-> requests'[s].text,
                         channel |-> requests'[s].channel,
                         entities |-> requests'[s].supplied])
             /\ rate_limits' = RateLimitsAfter(requests[s].agent)]_vars

\* C40: after any sequence of start_background_tasks and
\* stop_background_tasks calls at most one task of the loop is running: a
\* start while a task exists creates none, and a task that was stopped
\* begins no further iteration.
C40_OneLoop ==
    [][/\ Cardinality({t \in DOMAIN background'.tasks :
                          ~background'.tasks[t].cancelled}) <= 1
       /\ Len(background'.tasks) > Len(background.tasks) => Runnable = {}
       /\ \A t \in DOMAIN background.tasks :
             background.tasks[t].cancelled
                => background'.tasks[t] = background.tasks[t]]_vars

C40_Witness ==
    /\ Len(background.tasks) = 2
    /\ background.tasks[1].cancelled /\ background.tasks[1].ticks > 0
    /\ background.task = 2 /\ background.tasks[2].ticks > 0
    /\ background.last_start = "ignored"

====
